---- MODULE Spec2Model ----
(***************************************************************************)
(* The orchestration engine of modern_onap_so: the five workflow routines  *)
(* (provision, delete, update, scale, configure) over one deployment       *)
(* record, the Store they write through, the remote calls they await, and  *)
(* the HTTP handlers that launch them as background tasks.                 *)
(*                                                                         *)
(* A workflow run is a record in `runs`; its pc names the await it is      *)
(* suspended at.  Every remote call and every Store update has its         *)
(* outcomes (returns / raises) chosen nondeterministically.  A fan-out is  *)
(* asyncio.gather: the children run on their own; the awaiting workflow    *)
(* resumes with the results once all have returned, or with the first      *)
(* exception as soon as one child raises, the others then still being in   *)
(* flight.                                                                 *)
(***************************************************************************)
EXTENDS Integers, Sequences, FiniteSets, TLC

VARIABLES dep, runs, launches, breaker, clock, callers, last_op, retry,
          limiter, cache, threads

\* the state of the engine, and that of the utilities of orchestrator/utils
\* and of the rate limiter of api/middleware
engine == <<dep, runs, launches>>
utils == <<breaker, clock, callers, last_op, retry, limiter, cache, threads>>
vars == <<dep, runs, launches, breaker, clock, callers, last_op, retry,
          limiter, cache, threads>>

(***************************************************************************)
(* Bounds of the model.                                                    *)
(***************************************************************************)
MaxVMs == 2
MaxRuns == 2
MaxSlots == 2
MaxHttpVMs == 1
\* circuit breaker: configured thresholds and timeouts, failures counted,
\* seconds on the clock, concurrent callers
MaxThreshold == 2
MaxTimeout == 2
MaxFailures == 3
MaxClock == 3
MaxCallers == 2
\* retry: the largest max_attempts
MaxAttempts == 3
\* retry: the largest delay and max_delay, in seconds
MaxDelay == 2
MaxRate == 2
MaxWindow == 2
MaxTtl == 1
MaxThreads == 2

(***************************************************************************)
(* Values.                                                                 *)
(***************************************************************************)
\* Python None for an id (network_id: str | None = None)
NoId == 0
\* Python None for an optional dict argument or column
Null == [null |-> TRUE]
\* an absent key of a dict of counts (parameters.get("vm_count", ...))
Absent == -1

DeploymentStatus == {"PENDING", "IN_PROGRESS", "COMPLETED", "FAILED", "DELETING", "DELETED"}

\* for loop bound of the status poll
max_poll_attempts == 60
\* seconds slept between two poll rounds
poll_interval == 5

Slots == 1..MaxSlots

\* provider-assigned ids: distinct per run (n) and per call (i)
NewNetworkId(n) == 100 + n
NewSubnetId(n) == 200 + n
NewServerId(n, i) == 10 * n + i

Range(s) == {s[i] : i \in DOMAIN s}

\* the resources dict: the three keys the workflows write, and custom_data
\* for a key set by whoever created the record (Absent when there is none)
Resources(net, sub, servers) ==
    [network_id |-> net, subnet_id |-> sub, server_ids |-> servers,
     custom_data |-> Absent]

\* deployment.resources or {}
resources_or_empty(res) == IF res = Null THEN Resources(NoId, NoId, <<>>) ELSE res

\* a count read from the template alone, parameters.vm_count ignored
vm_count_template_only(parameters, template) ==
    IF template.count # Absent THEN template.count ELSE 1

\* parameters.get("vm_count", vm_config.get("count", 1))
vm_count_of(parameters, template) ==
    IF parameters.vm_count # Absent THEN parameters.vm_count
    ELSE IF template.count # Absent THEN template.count
    ELSE 1

(***************************************************************************)
(* The Store: update_deployment_status_activity over repo.update.          *)
(* It raises when the deployment is not found or the database fails;       *)
(* otherwise it sets status, and resources / error only when given.        *)
(***************************************************************************)
update_deployment_status_activity(d, status, resources, error) ==
    [d EXCEPT !.status = status,
              !.resources = IF resources # Null THEN resources ELSE @,
              !.error = IF error # Null THEN error ELSE @]

\* the outcomes of one Store update: "ok" needs the record to exist
StoreOutcomes == IF dep.exists THEN {"ok", "raise"} ELSE {"raise"}

WriteLog(status, outcome, resources, error) ==
    [status |-> status, ok |-> outcome = "ok",
     has_resources |-> resources # Null, has_error |-> error # Null]

(***************************************************************************)
(* A workflow run.                                                         *)
(***************************************************************************)
NoResult == [returned |-> "pending", success |-> FALSE, error |-> "",
             server_ids |-> <<>>,
             operation |-> "", initial_count |-> Absent, final_count |-> Absent,
             new_server_ids |-> <<>>, removed_server_ids |-> <<>>,
             configured_hosts |-> <<>>]

IdleRun ==
    [kind |-> "none", n |-> 0, pc |-> "idle",
     \* inputs
     resources |-> Resources(NoId, NoId, <<>>),
     parameters |-> [vm_count |-> Absent],
     template |-> [count |-> Absent],
     updated_parameters |-> [flavor |-> FALSE, network_cidr |-> FALSE],
     scale |-> [current_count |-> 0, target_count |-> 0, min_count |-> 0,
                max_count |-> Absent],
     \* locals
     network_id |-> NoId, subnet_id |-> NoId, server_ids |-> <<>>,
     updated_resources |-> Null,
     calls |-> <<>>, call_kind |-> "", attempt |-> 0, exc |-> "", rb_i |-> 0,
     ansible_status |-> "", lookups |-> 0, playbook_runs |-> 0,
     \* what the caller gets
     result |-> NoResult,
     \* history of the run
     writes |-> <<>>, net_calls |-> 0, subnet_calls |-> 0, vm_calls |-> 0,
     elapsed |-> 0, rb_first_failed |-> NoId,
     net_created |-> NoId, created |-> {},
     rb_invoked |-> FALSE, rb_network_id |-> NoId, rb_server_ids |-> <<>>,
     rb_attempted |-> {}, rb_raised |-> FALSE]

Pending(r) == {i \in DOMAIN runs[r].calls : runs[r].calls[i] = "pending"}

\* a run is in flight from its launch until execute returns or raises
InFlight(r) == runs[r].kind # "none" /\ runs[r].result.returned = "pending"

\* the slot holds nothing that can still act
Settled(r) == ~InFlight(r) /\ Pending(r) = {}

(***************************************************************************)
(* utils/circuit_breaker.py: CircuitBreaker and its two decorators.        *)
(***************************************************************************)
\* last_failure_time: float | None = None
NoTime == -1

Callers == 1..MaxCallers

\* CircuitBreaker.__init__
CircuitBreaker(failure_threshold, timeout) ==
    [failure_threshold |-> failure_threshold, timeout |-> timeout,
     failure_count |-> 0, last_failure_time |-> NoTime, state |-> "CLOSED"]

\* "self.last_failure_time and ...": None and 0.0 are both false
truthy(t) == t # NoTime /\ t # 0

\* time.time() - self.last_failure_time >= self.timeout, guarded by the
\* truth of last_failure_time
timeout_elapsed(b, now) ==
    truthy(b.last_failure_time) /\ now - b.last_failure_time >= b.timeout

\* a can_execute that lets an OPEN breaker through without looking at the clock
can_execute_any_time(b, now) ==
    IF b.state = "OPEN"
    THEN [allowed |-> TRUE, breaker |-> [b EXCEPT !.state = "HALF_OPEN"]]
    ELSE [allowed |-> TRUE, breaker |-> b]

\* can_execute: its return value and the breaker it leaves
can_execute(b, now) ==
    IF b.state = "CLOSED" THEN [allowed |-> TRUE, breaker |-> b]
    ELSE IF b.state = "OPEN"
    THEN IF timeout_elapsed(b, now)
         THEN [allowed |-> TRUE, breaker |-> [b EXCEPT !.state = "HALF_OPEN"]]
         ELSE [allowed |-> FALSE, breaker |-> b]
    ELSE [allowed |-> TRUE, breaker |-> b]

\* a record_success that closes the breaker from whatever state it is in
record_success_closes(b) ==
    [b EXCEPT !.state = "CLOSED", !.failure_count = 0, !.last_failure_time = NoTime]

record_success(b) ==
    IF b.state = "HALF_OPEN"
    THEN [b EXCEPT !.state = "CLOSED", !.failure_count = 0, !.last_failure_time = NoTime]
    ELSE IF b.state = "CLOSED" THEN [b EXCEPT !.failure_count = 0]
    ELSE b

\* a record_failure that counts and never opens a CLOSED breaker
record_failure_counts(b, now) ==
    LET counted == [b EXCEPT !.failure_count = @ + 1, !.last_failure_time = now] IN
    IF b.state = "HALF_OPEN" THEN [counted EXCEPT !.state = "OPEN"] ELSE counted

record_failure(b, now) ==
    LET counted == [b EXCEPT !.failure_count = @ + 1, !.last_failure_time = now] IN
    IF b.state = "HALF_OPEN" THEN [counted EXCEPT !.state = "OPEN"]
    ELSE IF b.state = "CLOSED" /\ counted.failure_count >= b.failure_threshold
    THEN [counted EXCEPT !.state = "OPEN"]
    ELSE counted

reset(b) ==
    [b EXCEPT !.state = "CLOSED", !.failure_count = 0, !.last_failure_time = NoTime]

\* one operation on the breaker, with the states before and after it
Operation(name, before, after) ==
    [name |-> name, before |-> before.state, after |-> after.state]

NoOperation == [name |-> "", before |-> "CLOSED", after |-> "CLOSED"]

\* a caller of a decorated function: between calls, or inside the function;
\* `last` describes its latest call of the wrapper: the breaker's state when
\* it was made, whether the timeout had elapsed, the state can_execute left,
\* whether func was invoked, and how the call ended
IdleCaller(decorator) ==
    [decorator |-> decorator, pc |-> "idle",
     last |-> [state |-> "", elapsed |-> FALSE, left |-> "", invoked |-> FALSE,
               outcome |-> ""]]

\* a function decorated with circuit_breaker_sync runs to its end before
\* anything else of the process does
NoSyncRunning ==
    \A c \in Callers : ~(callers[c].decorator = "sync" /\ callers[c].pc = "running")

\* wrapper, up to the call of func: CircuitBreakerError unless can_execute
BreakerCall(c) ==
    LET checked == can_execute(breaker, clock)
        seen == [state |-> breaker.state, elapsed |-> timeout_elapsed(breaker, clock),
                 left |-> checked.breaker.state, invoked |-> checked.allowed,
                 outcome |-> IF checked.allowed THEN "" ELSE "CircuitBreakerError"]
    IN
    /\ NoSyncRunning
    /\ callers[c].pc = "idle"
    /\ breaker' = checked.breaker
    /\ last_op' = Operation("can_execute", breaker, checked.breaker)
    /\ callers' = [callers EXCEPT ![c] =
                     [@ EXCEPT !.pc = IF checked.allowed THEN "running" ELSE "idle",
                               !.last = seen]]
    /\ UNCHANGED <<engine, limiter, cache, threads, clock, retry>>

\* func returns: record_success, the result is returned
BreakerReturn(c) ==
    /\ callers[c].pc = "running"
    /\ callers[c].decorator = "sync" \/ NoSyncRunning
    /\ breaker' = record_success(breaker)
    /\ last_op' = Operation("record_success", breaker, breaker')
    /\ callers' = [callers EXCEPT ![c] = [@ EXCEPT !.pc = "idle", !.last.outcome = "returned"]]
    /\ UNCHANGED <<engine, limiter, cache, threads, clock, retry>>

\* func raises: record_failure, the exception is re-raised
BreakerRaise(c) ==
    /\ callers[c].pc = "running"
    /\ callers[c].decorator = "sync" \/ NoSyncRunning
    /\ breaker.failure_count < MaxFailures
    /\ breaker' = record_failure(breaker, clock)
    /\ last_op' = Operation("record_failure", breaker, breaker')
    /\ callers' = [callers EXCEPT ![c] = [@ EXCEPT !.pc = "idle", !.last.outcome = "raised"]]
    /\ UNCHANGED <<engine, limiter, cache, threads, clock, retry>>

\* breaker.reset() by whoever holds the breaker
BreakerReset ==
    /\ NoSyncRunning
    /\ breaker' = reset(breaker)
    /\ last_op' = Operation("reset", breaker, breaker')
    /\ UNCHANGED <<engine, limiter, cache, threads, clock, callers, retry>>

\* a second passes on time.time()
Tick ==
    /\ clock < MaxClock
    /\ clock' = clock + 1
    /\ UNCHANGED <<engine, limiter, cache, threads, breaker, callers, last_op, retry>>

(***************************************************************************)
(* utils/retry.py: retry_sync and retry_async, the same loop (the async    *)
(* one awaits func and the sleep).                                         *)
(***************************************************************************)
\* the exception types func may raise; the decorator lists some of them
ExceptionTypes == {"RetryableError", "ConnectionError", "ValueError"}

NoException == [type |-> "", attempt |-> 0]

\* the locals of one call of wrapper, and the history of what func did
RetryCall(max_attempts, exceptions) ==
    [max_attempts |-> max_attempts, exceptions |-> exceptions,
     \* delay: float = 1.0, backoff_factor: float = 2.0, max_delay: float = 60.0
     delay |-> 1, backoff_factor |-> 2, max_delay |-> 60,
     attempt |-> 1, pc |-> "loop", current_delay |-> 1,
     last_exception |-> NoException,
     raised |-> NoException, attempts |-> <<>>,
     \* the delays slept so far
     slept |-> <<>>]

\* min(a, b)
min(a, b) == IF a <= b THEN a ELSE b

RetryAtRest == [RetryCall(0, {}) EXCEPT !.pc = "rest"]

\* a loop body that catches every exception type
RetryAttemptCatchesAll ==
    /\ retry.pc = "loop" /\ retry.attempt <= retry.max_attempts
    /\ \/ retry' = [retry EXCEPT !.pc = "returned",
                                 !.attempts = Append(@, [NoException EXCEPT !.type = "ok"])]
       \/ \E t \in ExceptionTypes :
            LET e == [type |-> t, attempt |-> retry.attempt] IN
            retry' = IF retry.attempt = retry.max_attempts
                     THEN [retry EXCEPT !.pc = "raised", !.raised = e, !.last_exception = e,
                                        !.attempts = Append(@, e)]
                     ELSE [retry EXCEPT !.pc = "sleep", !.last_exception = e,
                                        !.attempts = Append(@, e),
                                        !.slept = Append(@, retry.current_delay)]
    /\ UNCHANGED <<engine, limiter, cache, threads, breaker, clock, callers, last_op>>

\* one pass of "for attempt in range(1, max_attempts + 1)": func is called;
\* it returns, or raises a listed type (re-raised on the last attempt, slept
\* on otherwise), or raises another type, which leaves wrapper at once
RetryAttempt ==
    /\ retry.pc = "loop" /\ retry.attempt <= retry.max_attempts
    /\ \/ retry' = [retry EXCEPT !.pc = "returned",
                                 !.attempts = Append(@, [NoException EXCEPT !.type = "ok"])]
       \/ \E t \in ExceptionTypes :
            LET e == [type |-> t, attempt |-> retry.attempt] IN
            retry' = IF t \notin retry.exceptions
                     THEN [retry EXCEPT !.pc = "raised", !.raised = e,
                                        !.attempts = Append(@, e)]
                     ELSE IF retry.attempt = retry.max_attempts
                     THEN [retry EXCEPT !.pc = "raised", !.raised = e, !.last_exception = e,
                                        !.attempts = Append(@, e)]
                     ELSE [retry EXCEPT !.pc = "sleep", !.last_exception = e,
                                        !.attempts = Append(@, e),
                                        !.slept = Append(@, retry.current_delay)]
    /\ UNCHANGED <<engine, limiter, cache, threads, breaker, clock, callers, last_op>>

\* time.sleep(current_delay) is over: current_delay is multiplied and capped
\* for the next sleep, then the next pass of the loop
RetrySleepDone ==
    /\ retry.pc = "sleep"
    /\ retry' = [retry EXCEPT !.pc = "loop", !.attempt = @ + 1,
                              !.current_delay =
                                  min(@ * retry.backoff_factor, retry.max_delay)]
    /\ UNCHANGED <<engine, limiter, cache, threads, breaker, clock, callers, last_op>>

\* the loop ended without return or raise (range(1, max_attempts + 1) was
\* empty): raise last_exception if there is one, else return None
RetryFallThrough ==
    /\ retry.pc = "loop" /\ retry.attempt > retry.max_attempts
    /\ retry' = IF retry.last_exception # NoException
                THEN [retry EXCEPT !.pc = "raised", !.raised = retry.last_exception]
                ELSE [retry EXCEPT !.pc = "returned"]
    /\ UNCHANGED <<engine, limiter, cache, threads, breaker, clock, callers, last_op>>

(***************************************************************************)
(* api/middleware/rate_limit.py: SlidingWindowRateLimiter.  is_allowed has *)
(* no await in it, so a call of it runs to its end on the event loop.      *)
(***************************************************************************)
\* what _get_identifier returns: an API key or a client address
Identifiers == {"api_key:a", "ip:b"}

\* the info dict of a call that was not made
NoInfo == [limit |-> 0, remaining |-> 0, reset |-> 0, retry_after |-> 0]

\* SlidingWindowRateLimiter(rate_limit, window_seconds); requests is the
\* defaultdict, admitted the times at which each identifier was let through,
\* last the latest call of is_allowed and what it returned
SlidingWindowRateLimiter(rate_limit, window_seconds) ==
    [rate_limit |-> rate_limit, window_seconds |-> window_seconds,
     requests |-> [i \in {} |-> <<>>],
     admitted |-> [i \in Identifiers |-> <<>>],
     last |-> [identifier |-> "", now |-> 0, allowed |-> FALSE, raised |-> "",
               info |-> NoInfo]]

\* while request_queue and request_queue[0] < window_start: popleft()
RECURSIVE popleft_old(_, _)
popleft_old(request_queue, window_start) ==
    IF request_queue # <<>> /\ Head(request_queue) < window_start
    THEN popleft_old(Tail(request_queue), window_start)
    ELSE request_queue

\* self.requests[identifier] of the defaultdict
queue_of(l, identifier) ==
    IF identifier \in DOMAIN l.requests THEN l.requests[identifier] ELSE <<>>

\* an is_allowed that admits whatever the count
is_allowed_unchecked(l, identifier, now) ==
    LET request_queue == popleft_old(queue_of(l, identifier), now - l.window_seconds)
    IN [allowed |-> TRUE, raised |-> "",
        requests |-> (identifier :> Append(request_queue, now)) @@ l.requests,
        info |-> [limit |-> l.rate_limit,
                  remaining |-> l.rate_limit - Len(request_queue) - 1,
                  reset |-> now + l.window_seconds, retry_after |-> 0]]

\* is_allowed(identifier) at time now: the verdict, the info dict and the
\* requests it leaves; request_queue[0] of an empty deque is an IndexError
is_allowed(l, identifier, now) ==
    LET window_start == now - l.window_seconds
        request_queue == popleft_old(queue_of(l, identifier), window_start)
        current_count == Len(request_queue)
    IN
    IF current_count >= l.rate_limit
    THEN IF request_queue = <<>>
         THEN [allowed |-> FALSE, raised |-> "IndexError",
               requests |-> (identifier :> request_queue) @@ l.requests,
               info |-> NoInfo]
         ELSE LET oldest_request == Head(request_queue) IN
              [allowed |-> FALSE, raised |-> "",
               requests |-> (identifier :> request_queue) @@ l.requests,
               info |-> [limit |-> l.rate_limit, remaining |-> 0,
                         reset |-> oldest_request + l.window_seconds,
                         retry_after |-> oldest_request + l.window_seconds - now + 1]]
    ELSE [allowed |-> TRUE, raised |-> "",
          requests |-> (identifier :> Append(request_queue, now)) @@ l.requests,
          info |-> [limit |-> l.rate_limit,
                    remaining |-> l.rate_limit - current_count - 1,
                    reset |-> now + l.window_seconds, retry_after |-> 0]]

\* dispatch of a request that is not exempt: is_allowed(identifier)
IsAllowed(identifier) ==
    LET result == is_allowed(limiter, identifier, clock) IN
    /\ limiter' = [limiter EXCEPT
                     !.requests = result.requests,
                     !.admitted[identifier] =
                         IF result.allowed THEN Append(@, clock) ELSE @,
                     !.last = [identifier |-> identifier, now |-> clock,
                               allowed |-> result.allowed, raised |-> result.raised,
                               info |-> result.info]]
    /\ UNCHANGED <<engine, breaker, clock, callers, last_op, retry, cache, threads>>

\* cleanup_old_entries: old timestamps popped, identifiers left without any
\* removed from requests
cleanup_old_entries ==
    LET window_start == clock - limiter.window_seconds
        trimmed == [i \in DOMAIN limiter.requests |->
                       popleft_old(limiter.requests[i], window_start)]
        to_remove == {i \in DOMAIN trimmed : trimmed[i] = <<>>}
    IN
    /\ limiter' = [limiter EXCEPT
                     !.requests = [i \in DOMAIN trimmed \ to_remove |-> trimmed[i]]]
    /\ UNCHANGED <<engine, breaker, clock, callers, last_op, retry, cache, threads>>

LimiterAtRest == SlidingWindowRateLimiter(100, 60)

(***************************************************************************)
(* utils/cache.py: InMemoryCache, used from several threads.  The class    *)
(* holds no lock: a thread can be switched out between two statements of a *)
(* method, and between two steps of the iteration of cleanup_expired.  A   *)
(* single dict operation (a lookup, a store, a del, clear) is one step.    *)
(***************************************************************************)
Threads == 1..MaxThreads
Keys == {"k1", "k2"}
Values == {"v1"}

\* InMemoryCache(ttl_seconds): cache maps a key to (value, timestamp)
InMemoryCache(ttl_seconds) ==
    [ttl_seconds |-> ttl_seconds, cache |-> [k \in {} |-> <<>>]]

\* the operation a thread ended last and how, until it begins another
NoCall == [op |-> "", returned |-> "None", timestamp |-> 0, now |-> 0, raised |-> ""]

\* a thread outside the cache, and the locals of the method it is in
IdleThread ==
    [pc |-> "idle", key |-> "", value |-> "None", timestamp |-> 0, now |-> 0,
     size |-> 0, visited |-> {}, expired_keys |-> {}, last |-> NoCall]

\* the method of thread t ends: it returns, or an exception leaves it
Leave(t, op, key, returned, raised) ==
    threads' = [threads EXCEPT ![t] =
                  [IdleThread EXCEPT !.last =
                      [op |-> op, returned |-> returned, timestamp |-> 0, now |-> 0,
                       raised |-> raised]]]

\* now - timestamp > self.ttl_seconds
expired(timestamp, now) == now - timestamp > cache.ttl_seconds

\* del self.cache[key]
without(key) == [k \in DOMAIN cache.cache \ {key} |-> cache.cache[k]]

CacheRest == UNCHANGED <<engine, breaker, clock, callers, last_op, retry, limiter>>

\* get, line 50: "if key not in self.cache: return None"
CacheGet(t) ==
    /\ threads[t].pc = "idle"
    /\ \E key \in Keys :
         IF key \notin DOMAIN cache.cache
         THEN Leave(t, "get", key, "None", "")
         ELSE threads' = [threads EXCEPT ![t] = [IdleThread EXCEPT !.pc = "get_read", !.key = key]]
    /\ UNCHANGED cache /\ CacheRest

\* get, line 54: "value, timestamp = self.cache[key]", a KeyError when the
\* key has gone since line 50
CacheGetRead(t) ==
    /\ threads[t].pc = "get_read"
    /\ IF threads[t].key \notin DOMAIN cache.cache
       THEN Leave(t, "get", threads[t].key, "None", "KeyError")
       ELSE threads' = [threads EXCEPT ![t] =
                          [@ EXCEPT !.pc = "get_check",
                                    !.value = cache.cache[threads[t].key][1],
                                    !.timestamp = cache.cache[threads[t].key][2]]]
    /\ UNCHANGED cache /\ CacheRest

\* get, lines 55-64: now = time.time(); an expired entry goes on to the del,
\* another one is returned
CacheGetCheck(t) ==
    /\ threads[t].pc = "get_check"
    /\ IF expired(threads[t].timestamp, clock)
       THEN threads' = [threads EXCEPT ![t] = [@ EXCEPT !.pc = "get_del", !.now = clock]]
       ELSE threads' = [threads EXCEPT ![t] =
                          [IdleThread EXCEPT !.last =
                              [op |-> "get", returned |-> threads[t].value,
                               timestamp |-> threads[t].timestamp, now |-> clock,
                               raised |-> ""]]]
    /\ UNCHANGED cache /\ CacheRest

\* get, lines 60-61: "del self.cache[key]; return None", a KeyError when the
\* key has gone since line 54
CacheGetDel(t) ==
    /\ threads[t].pc = "get_del"
    /\ IF threads[t].key \notin DOMAIN cache.cache
       THEN /\ Leave(t, "get", threads[t].key, "None", "KeyError")
            /\ UNCHANGED cache
       ELSE /\ Leave(t, "get", threads[t].key, "None", "")
            /\ cache' = [cache EXCEPT !.cache = without(threads[t].key)]
    /\ CacheRest

\* set: self.cache[key] = (value, time.time())
CacheSet(t) ==
    /\ threads[t].pc = "idle"
    /\ \E key \in Keys, value \in Values :
         /\ cache' = [cache EXCEPT !.cache = (key :> <<value, clock>>) @@ @]
         /\ Leave(t, "set", key, "None", "")
    /\ CacheRest

\* delete, line 84: "if key in self.cache"
CacheDelete(t) ==
    /\ threads[t].pc = "idle"
    /\ \E key \in Keys :
         IF key \notin DOMAIN cache.cache
         THEN Leave(t, "delete", key, "None", "")
         ELSE threads' = [threads EXCEPT ![t] = [IdleThread EXCEPT !.pc = "delete_del", !.key = key]]
    /\ UNCHANGED cache /\ CacheRest

\* delete, line 85: "del self.cache[key]", a KeyError when the key has gone
\* since line 84
CacheDeleteDel(t) ==
    /\ threads[t].pc = "delete_del"
    /\ IF threads[t].key \notin DOMAIN cache.cache
       THEN /\ Leave(t, "delete", threads[t].key, "None", "KeyError")
            /\ UNCHANGED cache
       ELSE /\ Leave(t, "delete", threads[t].key, "None", "")
            /\ cache' = [cache EXCEPT !.cache = without(threads[t].key)]
    /\ CacheRest

\* clear: self.cache.clear()
CacheClear(t) ==
    /\ threads[t].pc = "idle"
    /\ cache' = [cache EXCEPT !.cache = [k \in {} |-> <<>>]]
    /\ Leave(t, "clear", "", "None", "")
    /\ CacheRest

\* cleanup_expired, lines 100-103: now = time.time(), and the iteration over
\* self.cache.items() begins; the iterator remembers the size of the dict
CacheCleanup(t) ==
    /\ threads[t].pc = "idle"
    /\ threads' = [threads EXCEPT ![t] =
                     [IdleThread EXCEPT !.pc = "cleanup_iter", !.now = clock,
                               !.size = Cardinality(DOMAIN cache.cache)]]
    /\ UNCHANGED cache /\ CacheRest

\* cleanup_expired, lines 101-105: one step of the iteration.  "dictionary
\* changed size during iteration" is a RuntimeError; otherwise the next item
\* is tested, and after the last one the loop of the dels begins
CacheCleanupNext(t) ==
    LET me == threads[t]
        left == DOMAIN cache.cache \ me.visited
    IN
    /\ me.pc = "cleanup_iter"
    /\ IF Cardinality(DOMAIN cache.cache) # me.size
       THEN Leave(t, "cleanup_expired", "", "None", "RuntimeError")
       ELSE IF left # {}
       THEN \E key \in left :
              threads' = [threads EXCEPT ![t] =
                  [@ EXCEPT !.visited = @ \cup {key},
                            !.expired_keys =
                                IF expired(cache.cache[key][2], me.now)
                                THEN @ \cup {key} ELSE @]]
       ELSE IF me.expired_keys = {}
       THEN Leave(t, "cleanup_expired", "", "None", "")
       ELSE threads' = [threads EXCEPT ![t] = [@ EXCEPT !.pc = "cleanup_del"]]
    /\ UNCHANGED cache /\ CacheRest

\* cleanup_expired, lines 107-108: "del self.cache[key]" for one of
\* expired_keys, a KeyError when the key has gone since the iteration
CacheCleanupDel(t) ==
    LET me == threads[t] IN
    /\ me.pc = "cleanup_del"
    /\ \E key \in me.expired_keys :
         IF key \notin DOMAIN cache.cache
         THEN /\ Leave(t, "cleanup_expired", key, "None", "KeyError")
              /\ UNCHANGED cache
         ELSE /\ cache' = [cache EXCEPT !.cache = without(key)]
              /\ IF me.expired_keys = {key}
                 THEN Leave(t, "cleanup_expired", "", "None", "")
                 ELSE threads' = [threads EXCEPT ![t] =
                                    [@ EXCEPT !.expired_keys = @ \ {key}]]
    /\ CacheRest

CacheAtRest ==
    /\ cache = InMemoryCache(300)
    /\ threads = [t \in Threads |-> IdleThread]

\* the utilities are not in use
UtilsAtRest ==
    /\ breaker = CircuitBreaker(1, 0)
    /\ clock = 1
    /\ callers = [c \in Callers |-> IdleCaller("sync")]
    /\ last_op = NoOperation
    /\ retry = RetryAtRest
    /\ limiter = LimiterAtRest
    /\ CacheAtRest

\* a record created through the repository as COMPLETED, its resources
\* carrying a key of the creator's own next to the three known ones
StoredWithCustomData ==
    [exists |-> TRUE, status |-> "COMPLETED",
     resources |-> [Resources(NewNetworkId(0), NewSubnetId(0),
                              [i \in 1..MaxVMs |-> NewServerId(0, i)])
                       EXCEPT !.custom_data = 1],
     error |-> Null]

Init ==
    /\ dep \in {[exists |-> e, status |-> "PENDING", resources |-> Null, error |-> Null]
                    : e \in BOOLEAN} \cup {StoredWithCustomData}
    /\ runs = [r \in Slots |-> IdleRun]
    /\ launches = 0
    /\ UtilsAtRest

(***************************************************************************)
(* run_deployment_workflow: the Provision routine.                         *)
(***************************************************************************)
\* the caller of the engine starts a Provision run for a deployment created
\* in PENDING (or for an id the Store does not hold), no other run in flight
run_deployment_workflow(r) ==
    /\ launches < MaxRuns
    /\ \A q \in Slots : Settled(q)
    /\ r = 1
    /\ dep.status = "PENDING"
    /\ \E pv \in {Absent} \cup 0..MaxVMs, tc \in {Absent} \cup 1..MaxVMs :
         /\ pv # Absent => tc = 1
         /\ runs' = [runs EXCEPT ![r] =
                      [IdleRun EXCEPT !.kind = "provision", !.n = launches + 1,
                                      !.pc = "start",
                                      !.parameters = [vm_count |-> pv],
                                      !.template = [count |-> tc]]]
    /\ launches' = launches + 1
    /\ UNCHANGED <<dep, utils>>

\* entering the except branch: rollback_resources_activity is called with
\* the locals network_id and server_ids as they are at that moment
EnterRollback(run, e) ==
    [run EXCEPT !.exc = e, !.pc = "rollback", !.rb_i = 0,
                !.rb_invoked = TRUE,
                !.rb_network_id = run.network_id,
                !.rb_server_ids = run.server_ids]

\* one awaited Store update of run r: on return the run continues as onOk,
\* on raise as onRaise; either way the attempt is logged in the run's history
StoreWrite(r, status, resources, error, onOk, onRaise) ==
    \E o \in StoreOutcomes :
        /\ dep' = IF o = "ok"
                  THEN update_deployment_status_activity(dep, status, resources, error)
                  ELSE dep
        /\ runs' = [runs EXCEPT ![r] =
                      [(IF o = "ok" THEN onOk ELSE onRaise) EXCEPT !.writes =
                          Append(@, WriteLog(status, o, resources, error))]]

\* a Step 1 whose update may fail without stopping the run
ProvisionBeginUnchecked(r) ==
    /\ runs[r].kind = "provision" /\ runs[r].pc = "start"
    /\ StoreWrite(r, "IN_PROGRESS", Null, Null,
                  [runs[r] EXCEPT !.pc = "create_network", !.net_calls = @ + 1],
                  [runs[r] EXCEPT !.pc = "create_network", !.net_calls = @ + 1])
    /\ UNCHANGED <<launches, utils>>

\* Step 1: update status to IN_PROGRESS, then the create_network call is issued
ProvisionBegin(r) ==
    /\ runs[r].kind = "provision" /\ runs[r].pc = "start"
    /\ StoreWrite(r, "IN_PROGRESS", Null, Null,
                  [runs[r] EXCEPT !.pc = "create_network", !.net_calls = @ + 1],
                  EnterRollback(runs[r], "store"))
    /\ UNCHANGED <<launches, utils>>

\* create_network_activity, first remote call: client.create_network
CreateNetworkReturn(r) ==
    /\ runs[r].kind = "provision" /\ runs[r].pc = "create_network"
    /\ \/ runs' = [runs EXCEPT ![r] =
                     [@ EXCEPT !.pc = "create_subnet",
                               !.net_created = NewNetworkId(runs[r].n),
                               !.subnet_calls = @ + 1]]
       \/ runs' = [runs EXCEPT ![r] = EnterRollback(@, "network")]
    /\ UNCHANGED <<dep, launches, utils>>

\* the fan-out of Step 3: one create_vm_activity per VM, all issued at once
IssueCalls(run, kind, count) ==
    [run EXCEPT !.calls = [i \in 1..count |-> "pending"], !.call_kind = kind]

\* create_network_activity, second remote call: client.create_subnet; only
\* when it returns does the workflow learn network_id and subnet_id
CreateSubnetReturn(r) ==
    /\ runs[r].kind = "provision" /\ runs[r].pc = "create_subnet"
    /\ \/ LET n == vm_count_of(runs[r].parameters, runs[r].template)
              got == [runs[r] EXCEPT !.network_id = runs[r].net_created,
                                     !.subnet_id = NewSubnetId(runs[r].n),
                                     !.pc = "gather_vms",
                                     !.vm_calls = n]
          IN runs' = [runs EXCEPT ![r] = IssueCalls(got, "create", n)]
       \/ runs' = [runs EXCEPT ![r] = EnterRollback(@, "subnet")]
    /\ UNCHANGED <<dep, launches, utils>>

\* one create_vm_activity task finishes: client.create_server returned or raised
CreateVmReturn(r, i) ==
    /\ runs[r].call_kind = "create" /\ i \in Pending(r)
    /\ \/ runs' = [runs EXCEPT ![r] =
                     [@ EXCEPT !.calls[i] = "ok",
                               !.created = @ \cup {NewServerId(runs[r].n, i)}]]
       \/ runs' = [runs EXCEPT ![r] = [@ EXCEPT !.calls[i] = "failed"]]
    /\ UNCHANGED <<dep, launches, utils>>

\* the poll round of Step 4: one poll_vm_status_activity per created server
IssuePolls(run) == IssueCalls(run, "poll", Len(run.server_ids))

\* asyncio.gather returns: every create call returned, the ids are collected
\* and the first poll round is issued
GatherVmsJoin(r) ==
    /\ runs[r].kind = "provision" /\ runs[r].pc = "gather_vms"
    /\ \A i \in DOMAIN runs[r].calls : runs[r].calls[i] = "ok"
    /\ LET ids == [i \in DOMAIN runs[r].calls |-> NewServerId(runs[r].n, i)]
           got == [runs[r] EXCEPT !.server_ids = ids, !.attempt = 0,
                                  !.pc = "gather_polls"]
       IN runs' = [runs EXCEPT ![r] = IssuePolls(got)]
    /\ UNCHANGED <<dep, launches, utils>>

\* asyncio.gather raises: one child raised, the workflow resumes in its
\* except branch at once; server_ids was never assigned
GatherVmsRaise(r) ==
    /\ runs[r].kind = "provision" /\ runs[r].pc = "gather_vms"
    /\ \E i \in DOMAIN runs[r].calls : runs[r].calls[i] = "failed"
    /\ runs' = [runs EXCEPT ![r] = EnterRollback(@, "vm")]
    /\ UNCHANGED <<dep, launches, utils>>

\* one poll_vm_status_activity task finishes: the server is ACTIVE, not yet
\* ACTIVE, or the activity raises (status ERROR, or the request failed)
PollReturn(r, i) ==
    /\ runs[r].call_kind = "poll" /\ i \in Pending(r)
    /\ \E o \in {"ready", "notready", "failed"} :
         runs' = [runs EXCEPT ![r] = [@ EXCEPT !.calls[i] = o]]
    /\ UNCHANGED <<dep, launches, utils>>

AllReturned(run) == \A i \in DOMAIN run.calls : run.calls[i] \in {"ready", "notready"}

\* a test of the first result only
first_ready(run) == IF DOMAIN run.calls = {} THEN TRUE ELSE run.calls[1] = "ready"

\* all(result.is_ready for result in status_results)
all_ready(run) == \A i \in DOMAIN run.calls : run.calls[i] = "ready"

ProvisionResult(run, ok) ==
    [NoResult EXCEPT !.returned = "returned", !.success = ok,
                     !.error = IF ok THEN "" ELSE run.exc,
                     !.server_ids = run.server_ids]

\* the poll round joined with every server ready: Step 5 writes the
\* resources with COMPLETED and execute returns the success result
PollRoundReady(r) ==
    /\ runs[r].kind = "provision" /\ runs[r].pc = "gather_polls"
    /\ AllReturned(runs[r]) /\ all_ready(runs[r])
    /\ StoreWrite(r, "COMPLETED",
                  Resources(runs[r].network_id, runs[r].subnet_id, runs[r].server_ids),
                  Null,
                  [runs[r] EXCEPT !.pc = "done",
                                  !.result = ProvisionResult(runs[r], TRUE)],
                  EnterRollback(runs[r], "store"))
    /\ UNCHANGED <<launches, utils>>

\* a poll loop without the attempt bound: it sleeps and polls again whenever
\* some server is not ready
PollRoundNotReadyUnbounded(r) ==
    /\ runs[r].kind = "provision" /\ runs[r].pc = "gather_polls"
    /\ AllReturned(runs[r]) /\ ~all_ready(runs[r])
    /\ runs' = [runs EXCEPT ![r] = [@ EXCEPT !.pc = "sleep"]]
    /\ UNCHANGED <<dep, launches, utils>>

\* the poll round joined, some server not ready, attempts left: sleep
PollRoundNotReady(r) ==
    /\ runs[r].kind = "provision" /\ runs[r].pc = "gather_polls"
    /\ AllReturned(runs[r]) /\ ~all_ready(runs[r])
    /\ runs[r].attempt < max_poll_attempts - 1
    /\ runs' = [runs EXCEPT ![r] = [@ EXCEPT !.pc = "sleep"]]
    /\ UNCHANGED <<dep, launches, utils>>

\* the last poll round joined without every server ready: the for loop's
\* else branch raises the timeout
PollTimeout(r) ==
    /\ runs[r].kind = "provision" /\ runs[r].pc = "gather_polls"
    /\ AllReturned(runs[r]) /\ ~all_ready(runs[r])
    /\ runs[r].attempt >= max_poll_attempts - 1
    /\ runs' = [runs EXCEPT ![r] = EnterRollback(@, "timeout")]
    /\ UNCHANGED <<dep, launches, utils>>

\* a poll loop that takes a raised poll for "not ready yet": sleep, poll again
GatherPollsRaiseIgnored(r) ==
    /\ runs[r].kind = "provision" /\ runs[r].pc = "gather_polls"
    /\ \E i \in DOMAIN runs[r].calls : runs[r].calls[i] = "failed"
    /\ runs' = [runs EXCEPT ![r] = [@ EXCEPT !.pc = "sleep"]]
    /\ UNCHANGED <<dep, launches, utils>>

\* asyncio.gather over the polls raises as soon as one poll raised
GatherPollsRaise(r) ==
    /\ runs[r].kind = "provision" /\ runs[r].pc = "gather_polls"
    /\ \E i \in DOMAIN runs[r].calls : runs[r].calls[i] = "failed"
    /\ runs' = [runs EXCEPT ![r] = EnterRollback(@, "poll")]
    /\ UNCHANGED <<dep, launches, utils>>

\* asyncio.sleep(poll_interval) is over: the next round is issued
SleepDone(r) ==
    /\ runs[r].kind = "provision" /\ runs[r].pc = "sleep"
    /\ runs' = [runs EXCEPT ![r] =
                  IssuePolls([@ EXCEPT !.attempt = @ + 1, !.pc = "gather_polls",
                                       !.elapsed = @ + poll_interval])]
    /\ UNCHANGED <<dep, launches, utils>>

(***************************************************************************)
(* rollback_resources_activity: the compensator of the Provision routine.  *)
(***************************************************************************)
\* a deletion without its try/except: when the call raises, the compensator
\* is left at once with that exception
UnguardedDeletion(run, id, failed) ==
    [run EXCEPT !.rb_attempted = @ \cup {id},
                !.rb_first_failed = IF failed /\ @ = NoId THEN id ELSE @,
                !.rb_raised = @ \/ failed,
                !.pc = IF failed THEN "fail_write" ELSE @]

\* one guarded deletion of the compensator: the call is made for id; when it
\* raises (failed) the exception is logged and the compensator goes on; the
\* history keeps the first id whose deletion failed
GuardedDeletion(run, id, failed) ==
    [run EXCEPT !.rb_attempted = @ \cup {id},
                !.rb_first_failed = IF failed /\ @ = NoId THEN id ELSE @]

\* for server_id in server_ids: client.delete_server, its exception swallowed
RollbackDeleteServer(r) ==
    /\ runs[r].pc = "rollback" /\ runs[r].rb_i < Len(runs[r].rb_server_ids)
    /\ \E failed \in BOOLEAN :
         runs' = [runs EXCEPT ![r] =
                    [GuardedDeletion(@, runs[r].rb_server_ids[runs[r].rb_i + 1], failed)
                        EXCEPT !.rb_i = @ + 1]]
    /\ UNCHANGED <<dep, launches, utils>>

\* if network_id: client.delete_network, its exception swallowed
RollbackDeleteNetwork(r) ==
    /\ runs[r].pc = "rollback" /\ runs[r].rb_i = Len(runs[r].rb_server_ids)
    /\ runs[r].rb_network_id # NoId
    /\ runs[r].rb_network_id \notin runs[r].rb_attempted
    /\ \E failed \in BOOLEAN :
         runs' = [runs EXCEPT ![r] = GuardedDeletion(@, runs[r].rb_network_id, failed)]
    /\ UNCHANGED <<dep, launches, utils>>

RollbackComplete(run) ==
    /\ run.rb_i = Len(run.rb_server_ids)
    /\ run.rb_network_id # NoId => run.rb_network_id \in run.rb_attempted

\* the activity returns to the workflow's except branch
RollbackReturn(r) ==
    /\ runs[r].pc = "rollback" /\ RollbackComplete(runs[r])
    /\ runs' = [runs EXCEPT ![r] = [@ EXCEPT !.pc = "fail_write"]]
    /\ UNCHANGED <<dep, launches, utils>>

\* an except branch that reports the compensator's exception as the error
RollbackRaiseEscalates(r) ==
    /\ runs[r].pc = "rollback"
    /\ runs[r].rb_attempted = {} \/ RollbackComplete(runs[r])
    /\ runs' = [runs EXCEPT ![r] = [@ EXCEPT !.pc = "fail_write", !.rb_raised = TRUE,
                                            !.exc = "rollback"]]
    /\ UNCHANGED <<dep, launches, utils>>

\* the activity raises outside its guarded deletions (opening or closing the
\* client); the workflow logs rollback_failed and goes on
RollbackRaise(r) ==
    /\ runs[r].pc = "rollback"
    /\ runs[r].rb_attempted = {} \/ RollbackComplete(runs[r])
    /\ runs' = [runs EXCEPT ![r] = [@ EXCEPT !.pc = "fail_write", !.rb_raised = TRUE]]
    /\ UNCHANGED <<dep, launches, utils>>

ErrorPayload(message, keys) == [message |-> message, keys |-> keys]

\* a FAILED update that stores what the run had created
ProvisionFailStoresResources(r) ==
    /\ runs[r].kind = "provision" /\ runs[r].pc = "fail_write"
    /\ StoreWrite(r, "FAILED",
                  Resources(runs[r].network_id, runs[r].subnet_id, runs[r].server_ids),
                  ErrorPayload(runs[r].exc, {"message", "type"}),
                  [runs[r] EXCEPT !.pc = "done",
                                  !.result = ProvisionResult(runs[r], FALSE)],
                  [runs[r] EXCEPT !.pc = "done", !.result.returned = "raised"])
    /\ UNCHANGED <<launches, utils>>

\* the unguarded FAILED update that ends the except branch: when it raises,
\* the exception leaves execute
ProvisionFail(r) ==
    /\ runs[r].kind = "provision" /\ runs[r].pc = "fail_write"
    /\ StoreWrite(r, "FAILED", Null, ErrorPayload(runs[r].exc, {"message", "type"}),
                  [runs[r] EXCEPT !.pc = "done",
                                  !.result = ProvisionResult(runs[r], FALSE)],
                  [runs[r] EXCEPT !.pc = "done", !.result.returned = "raised"])
    /\ UNCHANGED <<launches, utils>>

Provision(r) ==
    \/ ProvisionBegin(r)
    \/ CreateNetworkReturn(r)
    \/ CreateSubnetReturn(r)
    \/ \E i \in 1..MaxVMs : CreateVmReturn(r, i)
    \/ GatherVmsJoin(r)
    \/ GatherVmsRaise(r)
    \/ \E i \in 1..MaxVMs : PollReturn(r, i)
    \/ PollRoundReady(r)
    \/ PollRoundNotReady(r)
    \/ PollTimeout(r)
    \/ GatherPollsRaise(r)
    \/ SleepDone(r)
    \/ RollbackDeleteServer(r)
    \/ RollbackDeleteNetwork(r)
    \/ RollbackReturn(r)
    \/ RollbackRaise(r)
    \/ ProvisionFail(r)

(***************************************************************************)
(* run_delete_workflow: the Delete routine.                                *)
(***************************************************************************)
\* an except branch that cleans up nothing but what the failed step named
EnterCleanupFailedOnly(run, e) ==
    [run EXCEPT !.exc = e, !.pc = "cleanup", !.rb_i = 0,
                !.rb_invoked = TRUE,
                !.rb_network_id = IF e = "delete_network" THEN run.resources.network_id
                                  ELSE NoId,
                !.rb_server_ids = <<>>]

\* entering the except branch: cleanup_orphaned_resources_activity is called
\* with the resources the run was given
EnterCleanup(run, e) ==
    [run EXCEPT !.exc = e, !.pc = "cleanup", !.rb_i = 0,
                !.rb_invoked = TRUE,
                !.rb_network_id = run.resources.network_id,
                !.rb_server_ids = run.resources.server_ids]

\* a Step 3 that calls delete_network_activity whether or not there is a network
AfterServersAlwaysNetwork(run) ==
    [run EXCEPT !.pc = "delete_network", !.net_calls = @ + 1]

\* Step 3, or Step 4 when there is no network: what follows the servers
AfterServers(run) ==
    IF run.resources.network_id # NoId
    THEN [run EXCEPT !.pc = "delete_network", !.net_calls = @ + 1]
    ELSE [run EXCEPT !.pc = "deleted_write"]

\* Step 1: update status to IN_PROGRESS; Step 2 issues one delete_vm_activity
\* per listed server
DeleteBegin(r) ==
    /\ runs[r].kind = "delete" /\ runs[r].pc = "start"
    /\ StoreWrite(r, "IN_PROGRESS", Null, Null,
                  IF runs[r].resources.server_ids # <<>>
                  THEN IssueCalls([runs[r] EXCEPT !.pc = "gather_deletes"], "delete",
                                  Len(runs[r].resources.server_ids))
                  ELSE AfterServers(runs[r]),
                  EnterCleanup(runs[r], "store"))
    /\ UNCHANGED <<launches, utils>>

\* one delete_vm_activity task finishes: client.delete_server returned True,
\* or it returned False or raised and the activity raises
DeleteVmReturn(r, i) ==
    /\ runs[r].call_kind = "delete" /\ i \in Pending(r)
    /\ \E o \in {"ok", "failed"} :
         runs' = [runs EXCEPT ![r] = [@ EXCEPT !.calls[i] = o]]
    /\ UNCHANGED <<dep, launches, utils>>

\* a join that goes on as soon as one deletion has returned
GatherDeletesFirst(r) ==
    /\ runs[r].kind = "delete" /\ runs[r].pc = "gather_deletes"
    /\ \E i \in DOMAIN runs[r].calls : runs[r].calls[i] = "ok"
    /\ runs' = [runs EXCEPT ![r] = AfterServers(@)]
    /\ UNCHANGED <<dep, launches, utils>>

\* asyncio.gather returns: every delete_vm_activity returned
GatherDeletesJoin(r) ==
    /\ runs[r].kind = "delete" /\ runs[r].pc = "gather_deletes"
    /\ \A i \in DOMAIN runs[r].calls : runs[r].calls[i] = "ok"
    /\ runs' = [runs EXCEPT ![r] = AfterServers(@)]
    /\ UNCHANGED <<dep, launches, utils>>

GatherDeletesRaise(r) ==
    /\ runs[r].kind = "delete" /\ runs[r].pc = "gather_deletes"
    /\ \E i \in DOMAIN runs[r].calls : runs[r].calls[i] = "failed"
    /\ runs' = [runs EXCEPT ![r] = EnterCleanup(@, "delete_vm")]
    /\ UNCHANGED <<dep, launches, utils>>

\* delete_network_activity returns or raises
DeleteNetworkReturn(r) ==
    /\ runs[r].kind = "delete" /\ runs[r].pc = "delete_network"
    /\ \/ runs' = [runs EXCEPT ![r] = [@ EXCEPT !.pc = "deleted_write"]]
       \/ runs' = [runs EXCEPT ![r] = EnterCleanup(@, "delete_network")]
    /\ UNCHANGED <<dep, launches, utils>>

Result(run, ok) ==
    [NoResult EXCEPT !.returned = "returned", !.success = ok,
                     !.error = IF ok THEN "" ELSE run.exc]

\* Step 4: update status to DELETED and return the success result
DeleteComplete(r) ==
    /\ runs[r].kind = "delete" /\ runs[r].pc = "deleted_write"
    /\ StoreWrite(r, "DELETED", Null, Null,
                  [runs[r] EXCEPT !.pc = "done", !.result = Result(runs[r], TRUE)],
                  EnterCleanup(runs[r], "store"))
    /\ UNCHANGED <<launches, utils>>

\* cleanup_orphaned_resources_activity: every listed server, then the network
CleanupDeleteServer(r) ==
    /\ runs[r].pc = "cleanup" /\ runs[r].rb_i < Len(runs[r].rb_server_ids)
    /\ \E failed \in BOOLEAN :
         runs' = [runs EXCEPT ![r] =
                    [GuardedDeletion(@, runs[r].rb_server_ids[runs[r].rb_i + 1], failed)
                        EXCEPT !.rb_i = @ + 1]]
    /\ UNCHANGED <<dep, launches, utils>>

CleanupDeleteNetwork(r) ==
    /\ runs[r].pc = "cleanup" /\ runs[r].rb_i = Len(runs[r].rb_server_ids)
    /\ runs[r].rb_network_id # NoId
    /\ runs[r].rb_network_id \notin runs[r].rb_attempted
    /\ \E failed \in BOOLEAN :
         runs' = [runs EXCEPT ![r] = GuardedDeletion(@, runs[r].rb_network_id, failed)]
    /\ UNCHANGED <<dep, launches, utils>>

CleanupReturn(r) ==
    /\ runs[r].pc = "cleanup" /\ RollbackComplete(runs[r])
    /\ runs' = [runs EXCEPT ![r] = [@ EXCEPT !.pc = "fail_write"]]
    /\ UNCHANGED <<dep, launches, utils>>

CleanupRaise(r) ==
    /\ runs[r].pc = "cleanup"
    /\ runs[r].rb_attempted = {} \/ RollbackComplete(runs[r])
    /\ runs' = [runs EXCEPT ![r] = [@ EXCEPT !.pc = "fail_write", !.rb_raised = TRUE]]
    /\ UNCHANGED <<dep, launches, utils>>

\* the guarded FAILED update: its exception is logged, the failure result
\* is returned either way
GuardedFail(r, keys) ==
    StoreWrite(r, "FAILED", Null, ErrorPayload(runs[r].exc, keys),
               [runs[r] EXCEPT !.pc = "done", !.result = Result(runs[r], FALSE)],
               [runs[r] EXCEPT !.pc = "done", !.result = Result(runs[r], FALSE)])

DeleteFail(r) ==
    /\ runs[r].kind = "delete" /\ runs[r].pc = "fail_write"
    /\ GuardedFail(r, {"message", "phase"})
    /\ UNCHANGED <<launches, utils>>

Delete(r) ==
    \/ DeleteBegin(r)
    \/ \E i \in 1..MaxVMs : DeleteVmReturn(r, i)
    \/ GatherDeletesJoin(r)
    \/ GatherDeletesRaise(r)
    \/ DeleteNetworkReturn(r)
    \/ DeleteComplete(r)
    \/ CleanupDeleteServer(r)
    \/ CleanupDeleteNetwork(r)
    \/ CleanupReturn(r)
    \/ CleanupRaise(r)
    \/ DeleteFail(r)

(***************************************************************************)
(* run_update_workflow: the Update routine.                                *)
(***************************************************************************)
\* f"new-subnet-{subnet_id}"
new_subnet_id(subnet_id) == 1000 + subnet_id

\* a Step 3 that updates the network of every deployment that has one
AfterResizesAlwaysNetwork(run) ==
    IF /\ run.resources.network_id # NoId
       /\ run.resources.subnet_id # NoId
    THEN [run EXCEPT !.pc = "update_network", !.net_calls = @ + 1]
    ELSE [run EXCEPT !.pc = "completed_write"]

\* Step 3, or Step 4 when the network is not to be updated
AfterResizes(run) ==
    IF /\ run.updated_parameters.network_cidr
       /\ run.resources.network_id # NoId
       /\ run.resources.subnet_id # NoId
    THEN [run EXCEPT !.pc = "update_network", !.net_calls = @ + 1]
    ELSE [run EXCEPT !.pc = "completed_write"]

\* Step 1: update status to IN_PROGRESS; Step 2 issues one resize_vm_activity
\* per listed server when a flavor is given
UpdateBegin(r) ==
    /\ runs[r].kind = "update" /\ runs[r].pc = "start"
    /\ StoreWrite(r, "IN_PROGRESS", Null, Null,
                  IF runs[r].updated_parameters.flavor /\ runs[r].resources.server_ids # <<>>
                  THEN IssueCalls([runs[r] EXCEPT !.pc = "gather_resizes"], "resize",
                                  Len(runs[r].resources.server_ids))
                  ELSE AfterResizes(runs[r]),
                  [runs[r] EXCEPT !.exc = "store", !.pc = "fail_write"])
    /\ UNCHANGED <<launches, utils>>

\* one resize_vm_activity task finishes
ResizeVmReturn(r, i) ==
    /\ runs[r].call_kind = "resize" /\ i \in Pending(r)
    /\ \E o \in {"ok", "failed"} :
         runs' = [runs EXCEPT ![r] = [@ EXCEPT !.calls[i] = o]]
    /\ UNCHANGED <<dep, launches, utils>>

GatherResizesJoin(r) ==
    /\ runs[r].kind = "update" /\ runs[r].pc = "gather_resizes"
    /\ \A i \in DOMAIN runs[r].calls : runs[r].calls[i] = "ok"
    /\ runs' = [runs EXCEPT ![r] = AfterResizes(@)]
    /\ UNCHANGED <<dep, launches, utils>>

GatherResizesRaise(r) ==
    /\ runs[r].kind = "update" /\ runs[r].pc = "gather_resizes"
    /\ \E i \in DOMAIN runs[r].calls : runs[r].calls[i] = "failed"
    /\ runs' = [runs EXCEPT ![r] = [@ EXCEPT !.exc = "resize", !.pc = "fail_write"]]
    /\ UNCHANGED <<dep, launches, utils>>

\* a merge that keeps nothing but what the activity returned
network_result_only(updated, network_id, subnet_id) ==
    Resources(network_id, new_subnet_id(subnet_id), <<>>)

\* updated_resources.update(network_result): the activity's dict carries
\* network_id and the new subnet_id
merge_network_result(updated, network_id, subnet_id) ==
    [updated EXCEPT !.network_id = network_id, !.subnet_id = new_subnet_id(subnet_id)]

\* update_network_activity returns its dict, or raises
UpdateNetworkReturn(r) ==
    /\ runs[r].kind = "update" /\ runs[r].pc = "update_network"
    /\ \/ runs' = [runs EXCEPT ![r] =
                     [@ EXCEPT !.pc = "completed_write",
                               !.updated_resources =
                                   merge_network_result(@, runs[r].resources.network_id,
                                                        runs[r].resources.subnet_id)]]
       \/ runs' = [runs EXCEPT ![r] = [@ EXCEPT !.exc = "update_network", !.pc = "fail_write"]]
    /\ UNCHANGED <<dep, launches, utils>>

\* a Step 4 that writes the three known keys and drops any other
UpdateCompleteKnownKeys(r) ==
    LET res == runs[r].updated_resources IN
    /\ runs[r].kind = "update" /\ runs[r].pc = "completed_write"
    /\ StoreWrite(r, "COMPLETED",
                  Resources(res.network_id, res.subnet_id, res.server_ids), Null,
                  [runs[r] EXCEPT !.pc = "done", !.result = Result(runs[r], TRUE)],
                  [runs[r] EXCEPT !.exc = "store", !.pc = "fail_write"])
    /\ UNCHANGED <<launches, utils>>

\* Step 4: update status to COMPLETED with the merged resources
UpdateComplete(r) ==
    /\ runs[r].kind = "update" /\ runs[r].pc = "completed_write"
    /\ StoreWrite(r, "COMPLETED", runs[r].updated_resources, Null,
                  [runs[r] EXCEPT !.pc = "done", !.result = Result(runs[r], TRUE)],
                  [runs[r] EXCEPT !.exc = "store", !.pc = "fail_write"])
    /\ UNCHANGED <<launches, utils>>

\* error={"message": str(e), "phase": phase}
PhasePayload(message, phase) ==
    ErrorPayload(message, {"message", "phase"}) @@ [phase |-> phase]

\* an except branch that calls the cleanup over the run's resources before
\* it reports the failure
UpdateFailCompensates(r) ==
    /\ runs[r].kind = "update" /\ runs[r].pc = "fail_write"
    /\ StoreWrite(r, "FAILED", Null, PhasePayload(runs[r].exc, "update"),
                  [runs[r] EXCEPT !.pc = "done", !.result = Result(runs[r], FALSE),
                                  !.rb_invoked = TRUE],
                  [runs[r] EXCEPT !.pc = "done", !.result = Result(runs[r], FALSE),
                                  !.rb_invoked = TRUE])
    /\ UNCHANGED <<launches, utils>>

\* except Exception: the guarded FAILED update with phase "update", then the
\* failure result; nothing is undone
UpdateFail(r) ==
    /\ runs[r].kind = "update" /\ runs[r].pc = "fail_write"
    /\ StoreWrite(r, "FAILED", Null, PhasePayload(runs[r].exc, "update"),
                  [runs[r] EXCEPT !.pc = "done", !.result = Result(runs[r], FALSE)],
                  [runs[r] EXCEPT !.pc = "done", !.result = Result(runs[r], FALSE)])
    /\ UNCHANGED <<launches, utils>>

Update(r) ==
    \/ UpdateBegin(r)
    \/ \E i \in 1..MaxVMs : ResizeVmReturn(r, i)
    \/ GatherResizesJoin(r)
    \/ GatherResizesRaise(r)
    \/ UpdateNetworkReturn(r)
    \/ UpdateComplete(r)
    \/ UpdateFail(r)

(***************************************************************************)
(* run_scale_workflow: the Scale routine and its two activities.           *)
(***************************************************************************)
\* f"server-{hash(f'{cloud_region}-{i}') % 10000}": a function of i alone
\* within one process
placeholder_server_id(i) == 1000 + i

\* scale_out_activity: count_to_add placeholder ids, for i in range(count_to_add)
scale_out_activity(count_to_add) ==
    [success |-> TRUE, error |-> "",
     new_server_ids |-> [k \in 1..count_to_add |-> placeholder_server_id(k - 1)]]

\* a selection from the front of the list: server_ids[:count_to_remove]
first_entries(server_ids, count_to_remove) ==
    IF count_to_remove >= Len(server_ids) THEN server_ids
    ELSE SubSeq(server_ids, 1, count_to_remove)

\* server_ids[-count_to_remove:] for count_to_remove >= 0: the slice starts
\* at index 0 when count_to_remove is 0 (-0 is 0) or exceeds the length
last_entries(server_ids, count_to_remove) ==
    IF count_to_remove = 0 \/ count_to_remove >= Len(server_ids) THEN server_ids
    ELSE SubSeq(server_ids, Len(server_ids) - count_to_remove + 1, Len(server_ids))

\* a scale_in_activity without the min_count re-check
scale_in_unchecked(server_ids, count_to_remove, min_count) ==
    [success |-> TRUE, error |-> "",
     removed_server_ids |-> last_entries(server_ids, count_to_remove)]

\* scale_in_activity: the min_count re-check on len(server_ids), then the
\* last count_to_remove entries
scale_in_activity(server_ids, count_to_remove, min_count) ==
    IF Len(server_ids) - count_to_remove < min_count
    THEN [success |-> FALSE, error |-> "would leave fewer than min", removed_server_ids |-> <<>>]
    ELSE [success |-> TRUE, error |-> "",
          removed_server_ids |-> last_entries(server_ids, count_to_remove)]

ScaleResult(run, ok, operation, final, err, new, removed) ==
    [NoResult EXCEPT !.returned = "returned", !.success = ok, !.error = err,
                     !.operation = operation,
                     !.initial_count = run.scale.current_count,
                     !.final_count = final,
                     !.new_server_ids = new, !.removed_server_ids = removed]

Return(run, result) == [run EXCEPT !.pc = "done", !.result = result]

\* a bounds check that records its refusal as FAILED before returning
ScaleRejectedMarksFailed(r) ==
    LET in == runs[r].scale
        err == IF in.target_count < in.min_count
               THEN "below min_count" ELSE "exceeds max_count"
        res == ScaleResult(runs[r], FALSE, "none", in.current_count, err, <<>>, <<>>)
    IN
    /\ runs[r].kind = "scale" /\ runs[r].pc = "start"
    /\ \/ in.target_count < in.min_count
       \/ in.max_count # Absent /\ in.target_count > in.max_count
    /\ StoreWrite(r, "FAILED", Null, ErrorPayload(err, {"message"}),
                  Return(runs[r], res), Return(runs[r], res))
    /\ UNCHANGED <<launches, utils>>

\* Step 1: the bounds check fails; the result is returned, nothing is written
ScaleRejected(r) ==
    LET in == runs[r].scale IN
    /\ runs[r].kind = "scale" /\ runs[r].pc = "start"
    /\ \/ in.target_count < in.min_count
       \/ in.max_count # Absent /\ in.target_count > in.max_count
    /\ runs' = [runs EXCEPT ![r] =
                  Return(@, ScaleResult(@, FALSE, "none", in.current_count,
                                        IF in.target_count < in.min_count
                                        THEN "below min_count" ELSE "exceeds max_count",
                                        <<>>, <<>>))]
    /\ UNCHANGED <<dep, launches, utils>>

ScaleAccepted(r) ==
    LET in == runs[r].scale IN
    /\ runs[r].kind = "scale" /\ runs[r].pc = "start"
    /\ in.target_count >= in.min_count
    /\ in.max_count = Absent \/ in.target_count <= in.max_count

\* target > current: scale_out_activity, then the COMPLETED update (status
\* only) and the result
ScaleOut(r) ==
    LET in == runs[r].scale
        scale_result == scale_out_activity(in.target_count - in.current_count)
    IN
    /\ ScaleAccepted(r)
    /\ in.target_count > in.current_count
    /\ StoreWrite(r, "COMPLETED", Null, Null,
                  Return(runs[r], ScaleResult(runs[r], TRUE, "scale-out", in.target_count, "",
                                              scale_result.new_server_ids, <<>>)),
                  [runs[r] EXCEPT !.exc = "store", !.pc = "fail_write"])
    /\ UNCHANGED <<launches, utils>>

\* target < current: scale_in_activity over resources.server_ids; on its
\* refusal the FAILED update, else the COMPLETED update (status only)
ScaleIn(r) ==
    LET in == runs[r].scale
        scale_result == scale_in_activity(runs[r].resources.server_ids,
                                          in.current_count - in.target_count, in.min_count)
    IN
    /\ ScaleAccepted(r)
    /\ in.target_count < in.current_count
    /\ IF scale_result.success
       THEN StoreWrite(r, "COMPLETED", Null, Null,
                       Return(runs[r], ScaleResult(runs[r], TRUE, "scale-in", in.target_count,
                                                   "", <<>>, scale_result.removed_server_ids)),
                       [runs[r] EXCEPT !.exc = "store", !.pc = "fail_write"])
       ELSE StoreWrite(r, "FAILED", Null,
                       ErrorPayload(scale_result.error, {"message", "operation"}),
                       Return(runs[r], ScaleResult(runs[r], FALSE, "scale-in", in.current_count,
                                                   scale_result.error, <<>>, <<>>)),
                       [runs[r] EXCEPT !.exc = "store", !.pc = "fail_write"])
    /\ UNCHANGED <<launches, utils>>

\* target = current: nothing to do
ScaleNone(r) ==
    LET in == runs[r].scale IN
    /\ ScaleAccepted(r)
    /\ in.target_count = in.current_count
    /\ runs' = [runs EXCEPT ![r] =
                  Return(@, ScaleResult(@, TRUE, "none", in.current_count, "", <<>>, <<>>))]
    /\ UNCHANGED <<dep, launches, utils>>

\* except Exception: the guarded FAILED update, then the failure result
\* with operation "none"
ScaleFail(r) ==
    LET in == runs[r].scale
        res == ScaleResult(runs[r], FALSE, "none", in.current_count,
                           "Scaling workflow failed", <<>>, <<>>)
    IN
    /\ runs[r].kind = "scale" /\ runs[r].pc = "fail_write"
    /\ StoreWrite(r, "FAILED", Null, ErrorPayload("Scaling workflow failed", {"message"}),
                  Return(runs[r], res), Return(runs[r], res))
    /\ UNCHANGED <<launches, utils>>

Scale(r) ==
    \/ ScaleRejected(r)
    \/ ScaleOut(r)
    \/ ScaleIn(r)
    \/ ScaleNone(r)
    \/ ScaleFail(r)

(***************************************************************************)
(* run_configure_workflow: the Configure routine.                          *)
(***************************************************************************)
\* the parameters of update_deployment_status_activity
status_activity_parameters == {"deployment_id", "status", "resources", "error"}

\* a Python call binds only keyword arguments the function declares;
\* otherwise it raises TypeError before the body runs
call_binds(keywords) == keywords \subseteq status_activity_parameters

\* get_vm_addresses_activity: f"10.0.0.{5 + i}" for the i-th server
vm_addresses(server_ids) == [k \in DOMAIN server_ids |-> 5 + (k - 1)]

ConfigureResult(run, ok, err, hosts) ==
    [NoResult EXCEPT !.returned = "returned", !.success = ok, !.error = err,
                     !.configured_hosts = hosts]

\* a Step 1 that records its refusal as FAILED before returning
ConfigureNoVMsMarksFailed(r) ==
    LET res == ConfigureResult(runs[r], FALSE, "No VMs found", <<>>) IN
    /\ runs[r].kind = "configure" /\ runs[r].pc = "start"
    /\ runs[r].resources.server_ids = <<>>
    /\ StoreWrite(r, "FAILED", Null, ErrorPayload("No VMs found", {"message"}),
                  Return(runs[r], res), Return(runs[r], res))
    /\ UNCHANGED <<launches, utils>>

\* Step 1: no server_ids in the resources: the failure result, nothing else
ConfigureNoVMs(r) ==
    /\ runs[r].kind = "configure" /\ runs[r].pc = "start"
    /\ runs[r].resources.server_ids = <<>>
    /\ runs' = [runs EXCEPT ![r] =
                  Return(@, ConfigureResult(@, FALSE, "No VMs found", <<>>))]
    /\ UNCHANGED <<dep, launches, utils>>

\* Steps 2 to 4: the addresses are looked up, the playbook run is issued
ConfigureBegin(r) ==
    /\ runs[r].kind = "configure" /\ runs[r].pc = "start"
    /\ runs[r].resources.server_ids # <<>>
    /\ runs' = [runs EXCEPT ![r] = [@ EXCEPT !.pc = "run_ansible",
                                             !.lookups = @ + 1,
                                             !.playbook_runs = @ + 1]]
    /\ UNCHANGED <<dep, launches, utils>>

\* the playbook reported success: the COMPLETED update is called with
\* status and extra_metadata
ConfigureSucceeded(r) ==
    LET hosts == vm_addresses(runs[r].resources.server_ids) IN
    /\ runs[r].kind = "configure" /\ runs[r].pc = "run_ansible"
    /\ IF call_binds({"deployment_id", "status", "extra_metadata"})
       THEN StoreWrite(r, "COMPLETED", Null, Null,
                       Return([runs[r] EXCEPT !.ansible_status = "successful"],
                              ConfigureResult(runs[r], TRUE, "", hosts)),
                       [runs[r] EXCEPT !.exc = "store", !.pc = "fail_write",
                                       !.ansible_status = "successful"])
       ELSE /\ runs' = [runs EXCEPT ![r] = [@ EXCEPT !.exc = "TypeError", !.pc = "fail_write",
                                                     !.ansible_status = "successful"]]
            /\ UNCHANGED <<dep, utils>>
    /\ UNCHANGED <<launches, utils>>

\* a failure branch whose result still lists the hosts
ConfigureFailedListsHosts(r) ==
    /\ runs[r].kind = "configure" /\ runs[r].pc = "run_ansible"
    /\ \E st \in {"failed", "timeout"} :
         StoreWrite(r, "FAILED", Null,
                    ErrorPayload(st, {"message", "ansible_execution_id", "return_code"}),
                    Return([runs[r] EXCEPT !.ansible_status = st],
                           ConfigureResult(runs[r], FALSE, st,
                                           vm_addresses(runs[r].resources.server_ids))),
                    [runs[r] EXCEPT !.exc = "store", !.pc = "fail_write",
                                    !.ansible_status = st])
    /\ UNCHANGED <<launches, utils>>

\* the playbook reported failed or timeout: the FAILED update with message,
\* ansible_execution_id and return_code
ConfigureFailed(r) ==
    /\ runs[r].kind = "configure" /\ runs[r].pc = "run_ansible"
    /\ \E st \in {"failed", "timeout"} :
         StoreWrite(r, "FAILED", Null,
                    ErrorPayload(st, {"message", "ansible_execution_id", "return_code"}),
                    Return([runs[r] EXCEPT !.ansible_status = st],
                           ConfigureResult(runs[r], FALSE, st, <<>>)),
                    [runs[r] EXCEPT !.exc = "store", !.pc = "fail_write",
                                    !.ansible_status = st])
    /\ UNCHANGED <<launches, utils>>

\* run_ansible_activity raises
ConfigureRaised(r) ==
    /\ runs[r].kind = "configure" /\ runs[r].pc = "run_ansible"
    /\ runs' = [runs EXCEPT ![r] = [@ EXCEPT !.exc = "ansible", !.pc = "fail_write"]]
    /\ UNCHANGED <<dep, launches, utils>>

\* except Exception: the guarded FAILED update, then the failure result
ConfigureFail(r) ==
    LET res == ConfigureResult(runs[r], FALSE, "Configuration workflow failed", <<>>) IN
    /\ runs[r].kind = "configure" /\ runs[r].pc = "fail_write"
    /\ StoreWrite(r, "FAILED", Null,
                  ErrorPayload("Configuration workflow failed", {"message"}),
                  Return(runs[r], res), Return(runs[r], res))
    /\ UNCHANGED <<launches, utils>>

Configure(r) ==
    \/ ConfigureNoVMs(r)
    \/ ConfigureBegin(r)
    \/ ConfigureSucceeded(r)
    \/ ConfigureFailed(r)
    \/ ConfigureRaised(r)
    \/ ConfigureFail(r)

(***************************************************************************)
(* The HTTP handlers of api/v1/deployments.py that launch workflows.       *)
(***************************************************************************)
\* the lowest slot that holds no task any more
FreeSlot(r) == Settled(r) /\ \A q \in 1..(r - 1) : ~Settled(q)

\* PATCH /v1/deployments/{id}: 404 unless the record exists; with non-empty
\* parameters, asyncio.create_task(run_update_workflow(...)) with the
\* resources read by this request
update_deployment(r) ==
    /\ launches < MaxRuns
    /\ FreeSlot(r)
    /\ dep.exists
    /\ \E f \in BOOLEAN, c \in BOOLEAN :
         runs' = [runs EXCEPT ![r] =
                    [IdleRun EXCEPT !.kind = "update", !.n = launches + 1,
                                    !.pc = "start",
                                    !.resources = resources_or_empty(dep.resources),
                                    !.updated_resources = resources_or_empty(dep.resources),
                                    !.updated_parameters =
                                        [flavor |-> f, network_cidr |-> c]]]
    /\ launches' = launches + 1
    /\ UNCHANGED <<dep, utils>>

\* DELETE /v1/deployments/{id}: 404 unless the record exists; then
\* asyncio.create_task(run_delete_workflow(...)) with the resources read by
\* this request
delete_deployment(r) ==
    /\ launches < MaxRuns
    /\ FreeSlot(r)
    /\ dep.exists
    /\ runs' = [runs EXCEPT ![r] =
                  [IdleRun EXCEPT !.kind = "delete", !.n = launches + 1,
                                  !.pc = "start",
                                  !.resources = resources_or_empty(dep.resources)]]
    /\ launches' = launches + 1
    /\ UNCHANGED <<dep, utils>>

\* the precondition the engine relies on: no other workflow is in flight
SingleWriter == \A q \in Slots : Settled(q)

(***************************************************************************)
(* The engine's entry points called directly, for a COMPLETED deployment   *)
(* as scale_deployment and configure_deployment require of one.            *)
(***************************************************************************)
run_scale_workflow(r) ==
    /\ launches < MaxRuns
    /\ SingleWriter /\ r = 1
    /\ dep.exists /\ dep.status = "COMPLETED"
    /\ \E cur \in 0..MaxVMs, tgt \in 0..(MaxVMs + 1), mn \in 0..MaxVMs,
          mx \in {Absent, 1, MaxVMs} :
         runs' = [runs EXCEPT ![r] =
                    [IdleRun EXCEPT !.kind = "scale", !.n = launches + 1,
                                    !.pc = "start",
                                    !.resources = resources_or_empty(dep.resources),
                                    !.scale = [current_count |-> cur, target_count |-> tgt,
                                               min_count |-> mn, max_count |-> mx]]]
    /\ launches' = launches + 1
    /\ UNCHANGED <<dep, utils>>

run_configure_workflow(r) ==
    /\ launches < MaxRuns
    /\ SingleWriter /\ r = 1
    /\ dep.exists /\ dep.status = "COMPLETED"
    /\ runs' = [runs EXCEPT ![r] =
                  [IdleRun EXCEPT !.kind = "configure", !.n = launches + 1,
                                  !.pc = "start",
                                  !.resources = resources_or_empty(dep.resources)]]
    /\ launches' = launches + 1
    /\ UNCHANGED <<dep, utils>>

Next ==
    \E r \in Slots :
        \/ run_deployment_workflow(r)
        \/ run_scale_workflow(r)
        \/ run_configure_workflow(r)
        \/ SingleWriter /\ update_deployment(r)
        \/ SingleWriter /\ delete_deployment(r)
        \/ Provision(r)
        \/ Delete(r)
        \/ Update(r)
        \/ Scale(r)
        \/ Configure(r)

Spec == Init /\ [][Next]_vars

(***************************************************************************)
(* The HTTP layer on its own: the two handlers that launch workflows, as   *)
(* written (no check of the status or of a workflow in flight), over a     *)
(* deployment just created or already provisioned.                         *)
(***************************************************************************)
\* the record a successful Provision run for k servers leaves (run number 1)
Provisioned(k) ==
    [exists |-> TRUE, status |-> "COMPLETED",
     resources |-> Resources(NewNetworkId(1), NewSubnetId(1),
                             [i \in 1..k |-> NewServerId(1, i)]),
     error |-> Null]

InitHttp ==
    /\ dep \in {[exists |-> TRUE, status |-> "PENDING", resources |-> Null, error |-> Null]}
                \cup {Provisioned(k) : k \in 0..MaxHttpVMs}
    /\ runs = [r \in Slots |-> IdleRun]
    /\ launches = 0
    /\ UtilsAtRest

NextHttp ==
    \E r \in Slots :
        \/ update_deployment(r)
        \/ delete_deployment(r)
        \/ Delete(r)
        \/ Update(r)

SpecHttp == InitHttp /\ [][NextHttp]_vars

(***************************************************************************)
(* The utilities on their own: one breaker shared by callers through the   *)
(* sync and the async decorator, and one call of a retry-decorated         *)
(* function.  The engine is at rest.                                       *)
(***************************************************************************)
EngineAtRest ==
    /\ dep = [exists |-> FALSE, status |-> "PENDING", resources |-> Null, error |-> Null]
    /\ runs = [r \in Slots |-> IdleRun]
    /\ launches = 0

InitBreaker ==
    /\ EngineAtRest
    /\ \E failure_threshold \in 1..MaxThreshold, timeout \in 0..MaxTimeout :
         breaker = CircuitBreaker(failure_threshold, timeout)
    /\ clock = 1
    /\ callers = [c \in Callers |-> IdleCaller(IF c = 1 THEN "sync" ELSE "async")]
    /\ last_op = NoOperation
    /\ retry = RetryAtRest
    /\ limiter = LimiterAtRest
    /\ CacheAtRest

NextBreaker ==
    \/ \E c \in Callers : BreakerCall(c)
    \/ \E c \in Callers : BreakerReturn(c)
    \/ \E c \in Callers : BreakerRaise(c)
    \/ BreakerReset
    \/ Tick

SpecBreaker == InitBreaker /\ [][NextBreaker]_vars

InitRetry ==
    /\ EngineAtRest
    /\ breaker = CircuitBreaker(1, 0)
    /\ clock = 1
    /\ callers = [c \in Callers |-> IdleCaller("sync")]
    /\ last_op = NoOperation
    /\ limiter = LimiterAtRest
    /\ CacheAtRest
    /\ \E max_attempts \in 0..MaxAttempts,
          exceptions \in SUBSET {"RetryableError", "ConnectionError"},
          delay \in 0..MaxDelay, backoff_factor \in 1..2, max_delay \in 1..MaxDelay :
         retry = [RetryCall(max_attempts, exceptions) EXCEPT
                     !.delay = delay, !.current_delay = delay,
                     !.backoff_factor = backoff_factor, !.max_delay = max_delay]

NextRetry ==
    \/ RetryAttempt
    \/ RetrySleepDone
    \/ RetryFallThrough

SpecRetry == InitRetry /\ [][NextRetry]_vars

(***************************************************************************)
(* The rate limiter on its own, under requests of two identifiers, and the *)
(* cache on its own, under the operations of several threads.              *)
(***************************************************************************)
OthersAtRest ==
    /\ EngineAtRest
    /\ breaker = CircuitBreaker(1, 0)
    /\ callers = [c \in Callers |-> IdleCaller("sync")]
    /\ last_op = NoOperation
    /\ retry = RetryAtRest

InitLimiter ==
    /\ OthersAtRest
    /\ clock = 1
    /\ CacheAtRest
    /\ \E rate_limit \in 0..MaxRate, window_seconds \in 0..MaxWindow :
         limiter = SlidingWindowRateLimiter(rate_limit, window_seconds)

NextLimiter ==
    \/ \E identifier \in Identifiers : IsAllowed(identifier)
    \/ cleanup_old_entries
    \/ Tick

SpecLimiter == InitLimiter /\ [][NextLimiter]_vars

InitCache ==
    /\ OthersAtRest
    /\ clock = 1
    /\ limiter = LimiterAtRest
    /\ \E ttl_seconds \in 0..MaxTtl : cache = InMemoryCache(ttl_seconds)
    /\ threads = [t \in Threads |-> IdleThread]

NextCache ==
    \/ \E t \in Threads : CacheGet(t)
    \/ \E t \in Threads : CacheGetRead(t)
    \/ \E t \in Threads : CacheGetCheck(t)
    \/ \E t \in Threads : CacheGetDel(t)
    \/ \E t \in Threads : CacheSet(t)
    \/ \E t \in Threads : CacheDelete(t)
    \/ \E t \in Threads : CacheDeleteDel(t)
    \/ \E t \in Threads : CacheClear(t)
    \/ \E t \in Threads : CacheCleanup(t)
    \/ \E t \in Threads : CacheCleanupNext(t)
    \/ \E t \in Threads : CacheCleanupDel(t)
    \/ Tick

SpecCache == InitCache /\ [][NextCache]_vars

(***************************************************************************)
(* Properties of the engine.                                               *)
(***************************************************************************)
\* a run whose execute has returned a result to its caller
Returned(r) == runs[r].kind # "none" /\ runs[r].result.returned = "returned"

\* the Store updates of run r that took effect
Written(r) == {i \in DOMAIN runs[r].writes : runs[r].writes[i].ok}

\* C1: whichever workflow ran and whichever branch it took, Store update
\* failures included, once execute has returned, the status a run that wrote
\* to the Store leaves is COMPLETED, FAILED or DELETED, never IN_PROGRESS.
C1_FinalStatusTerminal ==
    \A r \in Slots :
        (Returned(r) /\ Written(r) # {})
            => dep.status \in {"COMPLETED", "FAILED", "DELETED"}

\* C2: a Provision run in which a server-creation call failed ends without
\* success, and its compensator was invoked with the network that was
\* created and with exactly the servers whose creation call succeeded.
C2_CompensatorGetsCreatedServers ==
    \A r \in Slots :
        (runs[r].kind = "provision" /\ runs[r].exc = "vm" /\ runs[r].rb_invoked)
            => /\ ~runs[r].result.success
               /\ runs[r].rb_network_id = runs[r].net_created
               /\ Range(runs[r].rb_server_ids) = runs[r].created

\* the awaits at which a workflow is suspended on a fan-out
GatherPcs == {"gather_vms", "gather_polls", "gather_deletes", "gather_resizes"}

\* C3: a workflow is past a fan-out (in a later step, in compensation, at
\* the FAILED write, or returned) only when every call of the fan-out has
\* completed: while a call is pending the workflow is suspended on the join.
C3_FullJoin ==
    \A r \in Slots : Pending(r) # {} => runs[r].pc \in GatherPcs

\* C4: no execute lets an exception reach its caller, and a result without
\* success carries an error string.
C4_NoExceptionEscapes ==
    \A r \in Slots :
        /\ runs[r].result.returned # "raised"
        /\ (Returned(r) /\ ~runs[r].result.success) => runs[r].result.error # ""

\* C5: at any time at most one workflow is in flight for the deployment,
\* the HTTP handlers launching none while an earlier one still runs.
C5_AtMostOneInFlight ==
    Cardinality({r \in Slots : InFlight(r)}) <= 1

\* C6: between runs the stored server_ids has as many entries as the
\* deployment has VMs: after a successful Scale run that was given the
\* stored list's length as current_count, as many as its final_count.
C6_ServerIdsLengthIsVmCount ==
    \A r \in Slots :
        (/\ Returned(r) /\ runs[r].kind = "scale" /\ runs[r].result.success
         /\ runs[r].scale.current_count = Len(runs[r].resources.server_ids)
         /\ dep.exists)
            => Len(resources_or_empty(dep.resources).server_ids) = runs[r].result.final_count

\* C7: of the Store writes of a finished run, the first sets IN_PROGRESS and
\* the last sets COMPLETED or DELETED, or FAILED with an error payload.
C7_FirstAndLastWrite ==
    \A r \in Slots :
        (runs[r].pc = "done" /\ runs[r].writes # <<>>)
            => LET first == runs[r].writes[1]
                   last == runs[r].writes[Len(runs[r].writes)]
               IN /\ first.status = "IN_PROGRESS"
                  /\ \/ last.status \in {"COMPLETED", "DELETED"}
                     \/ last.status = "FAILED" /\ last.has_error

\* the edges of the lifecycle state machine
LifecycleEdges ==
    {<<"PENDING", "IN_PROGRESS">>, <<"IN_PROGRESS", "COMPLETED">>,
     <<"IN_PROGRESS", "FAILED">>, <<"COMPLETED", "DELETING">>,
     <<"DELETING", "DELETED">>, <<"DELETING", "FAILED">>,
     <<"COMPLETED", "IN_PROGRESS">>}

\* C8: every change of the stored status made by a run whose Store updates
\* all took effect follows an edge of the lifecycle state machine; a Delete
\* run reaches DELETED only from DELETING.
C8_StatusFollowsLifecycle ==
    [][(/\ dep.status' # dep.status
        /\ \A r \in Slots : Written(r)' = DOMAIN runs'[r].writes)
           => <<dep.status, dep.status'>> \in LifecycleEdges]_vars

\* a Provision run that returned success
ProvisionSucceeded(r) ==
    runs[r].kind = "provision" /\ Returned(r) /\ runs[r].result.success

\* C9 as stated: a successful Provision run for a template requesting N VMs
\* issued one network, one subnet and N server creations, stored N
\* server_ids and left COMPLETED.
C9_TemplateCountProvisioned ==
    \A r \in Slots :
        (ProvisionSucceeded(r) /\ runs[r].template.count # Absent)
            => /\ runs[r].net_calls = 1 /\ runs[r].subnet_calls = 1
               /\ runs[r].vm_calls = runs[r].template.count
               /\ Len(resources_or_empty(dep.resources).server_ids) = runs[r].template.count
               /\ dep.status = "COMPLETED"

\* C9: a successful Provision run whose VM count is N (parameters.vm_count
\* when given, else the template's count, else 1) issued one network, one
\* subnet and N server creations, all N of which created a server, stored
\* N server_ids and left COMPLETED.
C9_VmCountProvisioned ==
    \A r \in Slots :
        ProvisionSucceeded(r)
            => LET N == IF runs[r].parameters.vm_count # Absent
                        THEN runs[r].parameters.vm_count
                        ELSE IF runs[r].template.count # Absent
                             THEN runs[r].template.count
                             ELSE 1
               IN /\ runs[r].net_calls = 1 /\ runs[r].subnet_calls = 1
                  /\ runs[r].vm_calls = N
                  /\ Cardinality(runs[r].created) = N
                  /\ dep.resources # Null
                  /\ Len(dep.resources.server_ids) = N
                  /\ Range(dep.resources.server_ids) = runs[r].created
                  /\ dep.resources.network_id = runs[r].net_created
                  /\ dep.status = "COMPLETED"

\* a successful Provision run of two VMs asked for by parameters.vm_count
\* over a template asking for one
C9_Witness ==
    \E r \in Slots :
        /\ ProvisionSucceeded(r)
        /\ runs[r].parameters.vm_count = 2 /\ runs[r].template.count = 1
        /\ dep.status = "COMPLETED" /\ Len(dep.resources.server_ids) = 2

\* C10: whenever the compensator of a Provision run is invoked after the
\* provider network was created, the subnet call having failed or not, it
\* is invoked with the id of that network.
C10_CompensatorGetsNetwork ==
    \A r \in Slots :
        (runs[r].kind = "provision" /\ runs[r].rb_invoked /\ runs[r].net_created # NoId)
            => runs[r].rb_network_id = runs[r].net_created

\* the last Store update a run attempted
LastWrite(r) == runs[r].writes[Len(runs[r].writes)]

\* run r ended on its failure path: its last Store update set FAILED with an
\* error payload and, that update having taken effect, the record reads
\* FAILED and execute returned a result without success
EndedFailed(r) ==
    /\ runs[r].writes # <<>>
    /\ LastWrite(r).status = "FAILED" /\ LastWrite(r).has_error
    /\ LastWrite(r).ok => /\ dep.status = "FAILED"
                          /\ Returned(r) /\ ~runs[r].result.success

\* the compensator of run r was invoked with the network and with every
\* server the run created
CompensatedAll(r) ==
    /\ runs[r].rb_invoked
    /\ runs[r].net_created # NoId /\ runs[r].rb_network_id = runs[r].net_created
    /\ Len(runs[r].rb_server_ids) = runs[r].vm_calls
    /\ Range(runs[r].rb_server_ids) = runs[r].created

\* a poll of the current round of Provision run r raised (server in ERROR)
PollFailed(r) ==
    /\ runs[r].kind = "provision" /\ runs[r].call_kind = "poll"
    /\ \E i \in DOMAIN runs[r].calls : runs[r].calls[i] = "failed"

\* C11: once a poll of a round has raised for a server in ERROR, the run
\* neither sleeps nor starts another round: it goes to its failure path, the
\* compensator is invoked with the network and the created servers, and the
\* run ends with the FAILED update.
C11_PollErrorFailsFast ==
    \A r \in Slots :
        PollFailed(r)
            => /\ runs[r].pc \in {"gather_polls", "rollback", "fail_write", "done"}
               /\ runs[r].pc # "gather_polls"
                    => runs[r].exc = "poll" /\ CompensatedAll(r)
               /\ runs[r].pc = "done" => EndedFailed(r)

\* a Provision run whose second poll round met a server in ERROR, ended FAILED
C11_Witness ==
    \E r \in Slots :
        /\ PollFailed(r) /\ runs[r].attempt = 1 /\ runs[r].pc = "done"
        /\ Returned(r) /\ dep.status = "FAILED"

\* C12: the poll loop makes at most max_poll_attempts rounds with
\* poll_interval seconds slept between two rounds; the timeout is raised only
\* after the last round, it invokes the compensator with the network and all
\* created servers, and the run ends with the FAILED update and the timeout
\* as its error.
C12_PollLoopBounded ==
    \A r \in Slots :
        runs[r].kind = "provision"
            => /\ runs[r].attempt < max_poll_attempts
               /\ runs[r].elapsed = poll_interval * runs[r].attempt
               /\ runs[r].exc = "timeout"
                    => /\ runs[r].attempt = max_poll_attempts - 1
                       /\ ~all_ready(runs[r])
                       /\ CompensatedAll(r)
                       /\ runs[r].pc = "done"
                            => /\ EndedFailed(r)
                               /\ Returned(r) => runs[r].result.error = "timeout"

\* a Provision run of at least one server that timed out and ended FAILED
C12_Witness ==
    \E r \in Slots :
        /\ runs[r].kind = "provision" /\ runs[r].exc = "timeout"
        /\ runs[r].rb_server_ids # <<>>
        /\ runs[r].pc = "done" /\ Returned(r) /\ dep.status = "FAILED"

\* the errors that send a Provision run to its except branch
TriggerErrors == {"store", "network", "subnet", "vm", "poll", "timeout"}

\* C13: when the compensator of a Provision run raised, the run still goes
\* on to the FAILED update, and the error it stores and returns is the
\* error that triggered the failure, not the compensator's.
C13_CompensatorFailureNotEscalated ==
    \A r \in Slots :
        (runs[r].kind = "provision" /\ runs[r].rb_raised)
            => /\ runs[r].pc \in {"fail_write", "done"}
               /\ runs[r].exc \in TriggerErrors
               /\ runs[r].pc = "done"
                    => /\ EndedFailed(r)
                       /\ LastWrite(r).ok
                            => /\ dep.error = ErrorPayload(runs[r].exc, {"message", "type"})
                               /\ runs[r].result.error = runs[r].exc

\* a Provision run that failed on a server creation, whose compensator raised,
\* and that returned the creation error with the record FAILED
C13_Witness ==
    \E r \in Slots :
        /\ runs[r].kind = "provision" /\ runs[r].rb_raised
        /\ Returned(r) /\ runs[r].result.error = "vm" /\ dep.status = "FAILED"

\* the ids the compensator of run r was given: every server id and, when
\* there is one, the network id
Listed(r) ==
    Range(runs[r].rb_server_ids)
        \cup (IF runs[r].rb_network_id # NoId THEN {runs[r].rb_network_id} ELSE {})

\* the compensator of run r was invoked and has returned or raised
CompensatorLeft(r) == runs[r].rb_invoked /\ runs[r].pc \in {"fail_write", "done"}

\* the compensator of run r is running
Compensating(r) == runs[r].pc \in {"rollback", "cleanup"}

DeleteVmFailed(r) ==
    /\ runs[r].kind = "delete" /\ runs[r].call_kind = "delete"
    /\ \E i \in DOMAIN runs[r].calls : runs[r].calls[i] = "failed"
    /\ runs[r].pc # "gather_deletes"

\* C15: once a server deletion of a Delete run has failed, the cleanup is
\* invoked with every server id and the network id the run was given, and,
\* whatever the cleanup does, the run returns a failure with the deletion's
\* error and its last Store update sets FAILED with that error.
C15_DeleteFailureCleansAll ==
    \A r \in Slots :
        DeleteVmFailed(r)
            => /\ runs[r].pc \in {"cleanup", "fail_write", "done"}
               /\ runs[r].rb_invoked
               /\ runs[r].rb_server_ids = runs[r].resources.server_ids
               /\ runs[r].rb_network_id = runs[r].resources.network_id
               /\ runs[r].pc = "done"
                    => /\ Returned(r) /\ ~runs[r].result.success
                       /\ runs[r].result.error = "delete_vm"
                       /\ EndedFailed(r)
                       /\ LastWrite(r).ok
                            => dep.error = ErrorPayload("delete_vm", {"message", "phase"})

\* a Delete run over two servers and a network, one server deletion failed,
\* the cleanup raised, and the run returned the deletion error, record FAILED
C15_Witness ==
    \E r \in Slots :
        /\ DeleteVmFailed(r) /\ Len(runs[r].resources.server_ids) = 2
        /\ runs[r].resources.network_id # NoId
        /\ runs[r].rb_raised /\ runs[r].rb_attempted = Listed(r)
        /\ Returned(r) /\ runs[r].result.error = "delete_vm" /\ dep.status = "FAILED"

\* a Delete run given empty resources
DeleteOfNothing(r) ==
    /\ runs[r].kind = "delete"
    /\ runs[r].resources.server_ids = <<>> /\ runs[r].resources.network_id = NoId

\* C16: a Delete run given empty resources makes no remote call, and, its
\* Store updates taking effect, it succeeds with exactly two updates,
\* IN_PROGRESS and then DELETED.
C16_DeleteOfNothing ==
    \A r \in Slots :
        DeleteOfNothing(r)
            => /\ runs[r].calls = <<>> /\ runs[r].net_calls = 0
               /\ runs[r].rb_attempted = {}
               /\ (runs[r].pc = "done" /\ Written(r) = DOMAIN runs[r].writes)
                    => /\ Returned(r) /\ runs[r].result.success
                       /\ ~runs[r].rb_invoked
                       /\ Len(runs[r].writes) = 2
                       /\ runs[r].writes[1].status = "IN_PROGRESS"
                       /\ runs[r].writes[2].status = "DELETED"
                       /\ \A i \in 1..2 : ~runs[r].writes[i].has_resources
                                          /\ ~runs[r].writes[i].has_error
                       /\ dep.status = "DELETED"

\* a Delete run given empty resources that succeeded, record DELETED
C16_Witness ==
    \E r \in Slots :
        /\ DeleteOfNothing(r) /\ Returned(r) /\ runs[r].result.success
        /\ Len(runs[r].writes) = 2 /\ dep.status = "DELETED"

\* Scale run r returned success for operation op
ScaleSucceeded(r, op) ==
    /\ runs[r].kind = "scale" /\ Returned(r)
    /\ runs[r].result.success /\ runs[r].result.operation = op

\* C17: after a successful scale-out the stored server_ids are the ids the
\* run was given followed by exactly (target - current) new ids, and the
\* status is COMPLETED.
C17_ScaleOutAppendsIds ==
    \A r \in Slots :
        ScaleSucceeded(r, "scale-out")
            => /\ Len(runs[r].result.new_server_ids)
                    = runs[r].scale.target_count - runs[r].scale.current_count
               /\ resources_or_empty(dep.resources).server_ids
                    = runs[r].resources.server_ids \o runs[r].result.new_server_ids
               /\ dep.status = "COMPLETED"

OutOfBounds(r) ==
    /\ runs[r].kind = "scale"
    /\ \/ runs[r].scale.target_count < runs[r].scale.min_count
       \/ /\ runs[r].scale.max_count # Absent
          /\ runs[r].scale.target_count > runs[r].scale.max_count

\* C19: a Scale run whose target is below min, or above a max that is set,
\* returns a failure with operation "none" and an error naming the bound
\* (min_count for the lower one); it makes no Store update and no remote
\* call, and the record keeps its status and resources.
C19_ValidationFailureTouchesNothing ==
    \A r \in Slots :
        (OutOfBounds(r) /\ runs[r].pc # "start")
            => /\ Returned(r) /\ ~runs[r].result.success
               /\ runs[r].result.operation = "none"
               /\ runs[r].result.error
                    = IF runs[r].scale.target_count < runs[r].scale.min_count
                      THEN "below min_count" ELSE "exceeds max_count"
               /\ runs[r].result.final_count = runs[r].scale.current_count
               /\ runs[r].result.new_server_ids = <<>>
               /\ runs[r].result.removed_server_ids = <<>>
               /\ runs[r].writes = <<>>
               /\ runs[r].calls = <<>> /\ runs[r].net_calls = 0
               /\ dep.status = "COMPLETED"
               /\ resources_or_empty(dep.resources) = runs[r].resources

\* a run refused for the lower bound on a deployment that has servers
C19_Witness ==
    \E r \in Slots :
        /\ OutOfBounds(r) /\ Returned(r)
        /\ runs[r].scale.target_count < runs[r].scale.min_count
        /\ runs[r].result.error = "below min_count"
        /\ runs[r].resources.server_ids # <<>>

\* C20: when the playbook run of a Configure run reported success, the run
\* returns success with the configured hosts, and, its Store updates taking
\* effect, the status is COMPLETED.
C20_PlaybookSuccessCompletes ==
    \A r \in Slots :
        (runs[r].kind = "configure" /\ runs[r].ansible_status = "successful"
            /\ runs[r].pc = "done")
            => /\ Returned(r) /\ runs[r].result.success
               /\ runs[r].result.configured_hosts = vm_addresses(runs[r].resources.server_ids)
               /\ Written(r) = DOMAIN runs[r].writes => dep.status = "COMPLETED"

\* C21: a Configure run given resources without server_ids looks up no
\* address and runs no playbook, makes no Store update, and returns, in the
\* step that started it, a failure with the error "No VMs found"; the record
\* keeps its status and resources.
C21_ConfigureWithoutVMs ==
    \A r \in Slots :
        (runs[r].kind = "configure" /\ runs[r].resources.server_ids = <<>>)
            => /\ runs[r].pc \in {"start", "done"}
               /\ runs[r].lookups = 0 /\ runs[r].playbook_runs = 0
               /\ runs[r].ansible_status = ""
               /\ runs[r].writes = <<>>
               /\ dep.status = "COMPLETED"
               /\ resources_or_empty(dep.resources) = runs[r].resources
               /\ runs[r].pc = "done"
                    => /\ Returned(r) /\ ~runs[r].result.success
                       /\ runs[r].result.error = "No VMs found"
                       /\ runs[r].result.configured_hosts = <<>>

\* a Configure run without servers that returned "No VMs found"
C21_Witness ==
    \E r \in Slots :
        /\ runs[r].kind = "configure" /\ runs[r].resources.server_ids = <<>>
        /\ Returned(r) /\ runs[r].result.error = "No VMs found"

\* the playbook run of Configure run r reported failed or timeout
PlaybookFailed(r) ==
    runs[r].kind = "configure" /\ runs[r].ansible_status \in {"failed", "timeout"}

\* C22: when the playbook run reported failed or timeout, the run's next
\* Store update sets FAILED with an error payload; that update taking
\* effect, the payload has the keys message, ansible_execution_id and
\* return_code, and the run returns a failure with that message; the result
\* carries no configured hosts in any case.
C22_PlaybookFailureFails ==
    \A r \in Slots :
        PlaybookFailed(r)
            => /\ runs[r].lookups = 1 /\ runs[r].playbook_runs = 1
               /\ runs[r].writes # <<>>
               /\ runs[r].writes[1].status = "FAILED" /\ runs[r].writes[1].has_error
               /\ ~runs[r].writes[1].has_resources
               /\ runs[r].writes[1].ok
                    => /\ Len(runs[r].writes) = 1
                       /\ Returned(r) /\ ~runs[r].result.success
                       /\ runs[r].result.error = runs[r].ansible_status
                       /\ dep.status = "FAILED"
                       /\ dep.error = ErrorPayload(runs[r].ansible_status,
                                                   {"message", "ansible_execution_id",
                                                    "return_code"})
               /\ runs[r].pc = "done"
                    => /\ Returned(r) /\ ~runs[r].result.success
                       /\ runs[r].result.configured_hosts = <<>>
                       /\ EndedFailed(r)

\* a Configure run over two servers whose playbook timed out, record FAILED
C22_Witness ==
    \E r \in Slots :
        /\ PlaybookFailed(r) /\ runs[r].ansible_status = "timeout"
        /\ Len(runs[r].resources.server_ids) = 2
        /\ Returned(r) /\ runs[r].result.error = "timeout"
        /\ dep.status = "FAILED" /\ dep.error.message = "timeout"

\* Update run r was given exactly the parameters flavor (f) and network_cidr (c)
UpdateOf(r, f, c) ==
    /\ runs[r].kind = "update"
    /\ runs[r].updated_parameters.flavor = f
    /\ runs[r].updated_parameters.network_cidr = c

\* C23: an Update run given flavor only never touches the network, the
\* resources it holds for the COMPLETED update are at every moment the
\* resources it was given, and after its success the record's network_id,
\* subnet_id, server_ids and custom key are those values.
C23_FlavorOnlyKeepsResources ==
    \A r \in Slots :
        UpdateOf(r, TRUE, FALSE)
            => /\ runs[r].net_calls = 0
               /\ runs[r].updated_resources = runs[r].resources
               /\ (Returned(r) /\ runs[r].result.success)
                    => /\ LastWrite(r).status = "COMPLETED" /\ LastWrite(r).has_resources
                       /\ dep.resources = runs[r].resources
                       /\ dep.resources.custom_data = runs[r].resources.custom_data

\* a flavor-only Update over two servers and a custom key that succeeded
C23_Witness ==
    \E r \in Slots :
        /\ UpdateOf(r, TRUE, FALSE) /\ Returned(r) /\ runs[r].result.success
        /\ runs[r].resources.custom_data # Absent
        /\ Len(runs[r].calls) = 2 /\ runs[r].call_kind = "resize"
        /\ dep.resources.custom_data = runs[r].resources.custom_data

\* the network step of Update run r was called and returned
NetworkStepReturned(r) ==
    /\ runs[r].kind = "update" /\ runs[r].net_calls = 1
    /\ runs[r].pc \in {"completed_write", "fail_write", "done"}
    /\ runs[r].exc # "update_network"

\* the resources an Update run is to write after the network step: those it
\* was given, subnet_id alone replaced
SubnetReplaced(r) ==
    [network_id |-> runs[r].resources.network_id,
     subnet_id |-> new_subnet_id(runs[r].resources.subnet_id),
     server_ids |-> runs[r].resources.server_ids,
     custom_data |-> runs[r].resources.custom_data]

C25_NoChangeIsStatusBounce ==
    \A r \in Slots :
        UpdateOf(r, FALSE, FALSE)
            => /\ runs[r].calls = <<>> /\ runs[r].net_calls = 0
               /\ runs[r].pc \in {"start", "completed_write", "fail_write", "done"}
               /\ runs[r].updated_resources = runs[r].resources
               /\ (runs[r].pc = "done" /\ Written(r) = DOMAIN runs[r].writes)
                    => /\ Returned(r) /\ runs[r].result.success
                       /\ Len(runs[r].writes) = 2
                       /\ runs[r].writes[1].status = "IN_PROGRESS"
                       /\ ~runs[r].writes[1].has_resources
                       /\ runs[r].writes[2].status = "COMPLETED"
                       /\ dep.status = "COMPLETED"
                       /\ dep.resources = runs[r].resources

\* a no-change Update of a deployment with a network and servers that succeeded
C25_Witness ==
    \E r \in Slots :
        /\ UpdateOf(r, FALSE, FALSE) /\ Returned(r) /\ runs[r].result.success
        /\ runs[r].resources.network_id # NoId /\ runs[r].resources.server_ids # <<>>
        /\ Len(runs[r].writes) = 2 /\ dep.status = "COMPLETED"

\* a step of Update run r raised
UpdateStepFailed(r) == runs[r].kind = "update" /\ runs[r].exc # ""

\* C26: once a step of an Update run has raised, the run goes straight to
\* its FAILED update, which carries {message, phase: "update"} and no
\* resources, and calls no rollback, cleanup or deletion; it returns a
\* failure with the step's error, and the record reads FAILED with that
\* payload when the update takes effect.
C26_UpdateFailureNotCompensated ==
    \A r \in Slots :
        UpdateStepFailed(r)
            => /\ runs[r].pc \in {"fail_write", "done"}
               /\ ~runs[r].rb_invoked /\ runs[r].rb_attempted = {}
               /\ runs[r].rb_server_ids = <<>> /\ runs[r].rb_network_id = NoId
               /\ runs[r].pc = "done"
                    => /\ Returned(r) /\ ~runs[r].result.success
                       /\ runs[r].result.error = runs[r].exc
                       /\ EndedFailed(r) /\ ~LastWrite(r).has_resources
                       /\ LastWrite(r).ok
                            => dep.error = PhasePayload(runs[r].exc, "update")

\* an Update in which one of two resizes succeeded and the other failed:
\* record FAILED with phase "update", nothing undone
C26_Witness ==
    \E r \in Slots :
        /\ UpdateStepFailed(r) /\ runs[r].exc = "resize" /\ Returned(r)
        /\ \E i, j \in DOMAIN runs[r].calls :
              runs[r].calls[i] = "ok" /\ runs[r].calls[j] = "failed"
        /\ dep.status = "FAILED" /\ dep.error.phase = "update"
        /\ dep.error.message = "resize"

\* C27: the record carries an error whenever its status is FAILED, and it
\* carries none once a successful run, its Store updates having taken
\* effect, has left the status at COMPLETED or DELETED.
C27_ErrorClearedBySuccess ==
    /\ dep.status = "FAILED" => dep.error # Null
    /\ \A r \in Slots :
          (Returned(r) /\ runs[r].result.success /\ runs[r].writes # <<>>
              /\ Written(r) = DOMAIN runs[r].writes
              /\ dep.status \in {"COMPLETED", "DELETED"})
              => dep.error = Null

(***************************************************************************)
(* Properties of the utilities.                                            *)
(***************************************************************************)
\* C28: every step that changes the breaker's state is one of: CLOSED to
\* OPEN by a recorded failure that brings failure_count to the threshold or
\* beyond; OPEN to HALF_OPEN by can_execute when the timeout has elapsed
\* since the last failure; HALF_OPEN to CLOSED by a recorded success;
\* HALF_OPEN to OPEN by a recorded failure; anything to CLOSED by reset.
C28_BreakerTransitions ==
    [][breaker'.state # breaker.state
         => \/ /\ breaker.state = "CLOSED" /\ breaker'.state = "OPEN"
               /\ last_op'.name = "record_failure"
               /\ breaker'.failure_count = breaker.failure_count + 1
               /\ breaker'.failure_count >= breaker.failure_threshold
            \/ /\ breaker.state = "OPEN" /\ breaker'.state = "HALF_OPEN"
               /\ last_op'.name = "can_execute"
               /\ breaker.last_failure_time # NoTime
               /\ clock - breaker.last_failure_time >= breaker.timeout
            \/ /\ breaker.state = "HALF_OPEN" /\ breaker'.state = "CLOSED"
               /\ last_op'.name = "record_success"
            \/ /\ breaker.state = "HALF_OPEN" /\ breaker'.state = "OPEN"
               /\ last_op'.name = "record_failure"
            \/ /\ breaker'.state = "CLOSED"
               /\ last_op'.name = "reset"]_vars

\* a breaker of threshold 2 that opened, half-opened after its timeout and
\* has just been closed by a successful call
C28_Witness ==
    /\ breaker.failure_threshold = 2 /\ breaker.timeout > 0
    /\ last_op = Operation("record_success", [state |-> "HALF_OPEN"], [state |-> "CLOSED"])
    /\ breaker.state = "CLOSED"

\* C29: a call of a function wrapped by either decorator, made while the
\* breaker is OPEN and its timeout has not elapsed, raises
\* CircuitBreakerError without invoking the function, and leaves the breaker
\* OPEN.
C29_OpenBreakerBlocks ==
    \A c \in Callers :
        (callers[c].last.state = "OPEN" /\ ~callers[c].last.elapsed)
            => /\ ~callers[c].last.invoked
               /\ callers[c].last.outcome = "CircuitBreakerError"
               /\ callers[c].pc = "idle"
               /\ callers[c].last.left = "OPEN"

\* a sync caller and an async caller both blocked by the open breaker
C29_Witness ==
    \E c, d \in Callers :
        /\ callers[c].decorator = "sync" /\ callers[d].decorator = "async"
        /\ \A x \in {c, d} : /\ callers[x].last.state = "OPEN"
                             /\ ~callers[x].last.elapsed
                             /\ callers[x].last.outcome = "CircuitBreakerError"
        /\ breaker.state = "OPEN"

\* the exceptions func raised, in order
Failures(a) == {k \in DOMAIN a : a[k].type # "ok"}

\* C30: in one call of a retry-decorated function, func is invoked at most
\* max_attempts times; every invocation but the first follows one that
\* raised a listed type; an exception of another type leaves the wrapper at
\* once; and once max_attempts invocations have all raised, the wrapper has
\* raised the last of those exceptions.
C30_RetryBounded ==
    LET a == retry.attempts IN
    retry.pc # "rest"
        => /\ Len(a) <= retry.max_attempts
           /\ \A k \in DOMAIN a :
                 k > 1 => a[k - 1].type \in retry.exceptions
           /\ \A k \in DOMAIN a :
                 (a[k].type # "ok" /\ a[k].type \notin retry.exceptions)
                     => /\ k = Len(a) /\ retry.pc = "raised" /\ retry.raised = a[k]
           /\ (Len(a) = retry.max_attempts /\ Failures(a) = DOMAIN a /\ a # <<>>)
                 => /\ retry.pc = "raised"
                    /\ retry.raised = a[Len(a)]
                    /\ retry.raised.attempt = retry.max_attempts
           /\ retry.pc = "raised" => /\ a # <<>> /\ retry.raised = a[Len(a)]
           /\ retry.pc = "returned" => (a = <<>> \/ a[Len(a)].type = "ok")

\* three attempts, each raising a listed type, the third re-raised
C30_Witness ==
    /\ retry.max_attempts = 3 /\ Len(retry.attempts) = 3
    /\ retry.pc = "raised"
    /\ retry.raised = [type |-> "ConnectionError", attempt |-> 3]
    /\ retry.attempts[1].type = "RetryableError"

\* the admissions of identifier i whose time lies in the window_seconds
\* up to time t
AdmittedWithin(i, t) ==
    {k \in DOMAIN limiter.admitted[i] :
        /\ limiter.admitted[i][k] >= t - limiter.window_seconds
        /\ limiter.admitted[i][k] <= t}

\* C31: every delay slept between two attempts of a retry-decorated call is
\* at most max_delay, the first one included.
C31_DelaysCapped ==
    \A k \in DOMAIN retry.slept : retry.slept[k] <= retry.max_delay

\* C32: at every time, each identifier has been let through at most
\* rate_limit times within the preceding window_seconds; and a refusal of an
\* identifier is owed to that identifier's own admissions alone, whatever the
\* other identifiers did.
C32_WindowLimit ==
    /\ \A i \in Identifiers : \A t \in 1..clock :
         Cardinality(AdmittedWithin(i, t)) <= limiter.rate_limit
    /\ (limiter.last.identifier # "" /\ ~limiter.last.allowed) =>
         Cardinality(AdmittedWithin(limiter.last.identifier, limiter.last.now))
             >= limiter.rate_limit
    /\ (limiter.last.identifier # "" /\ limiter.last.allowed) =>
         limiter.last.info.remaining >= 0

\* an identifier is refused at a time at which the other one was let through,
\* having itself been let through rate_limit times, once of them after an
\* older admission of its own had left the window
C32_Witness ==
    /\ limiter.rate_limit >= 1
    /\ ~limiter.last.allowed /\ limiter.last.raised = ""
    /\ limiter.last.identifier = "ip:b"
    /\ Len(limiter.admitted["ip:b"]) > limiter.rate_limit
    /\ \E k \in DOMAIN limiter.admitted["api_key:a"] :
         limiter.admitted["api_key:a"][k] = limiter.last.now

\* C33: no operation of the cache raises, whatever the interleaving of the
\* threads, and get returns None or a value that was set and has not expired.
C33_ThreadSafe ==
    \A t \in Threads :
        /\ threads[t].last.raised = ""
        /\ (threads[t].last.op = "get" /\ threads[t].last.returned # "None") =>
             /\ threads[t].last.returned \in Values
             /\ ~expired(threads[t].last.timestamp, threads[t].last.now)

\* the Store updates of run r that carry status
WritesOf(r, status) == {i \in DOMAIN runs[r].writes : runs[r].writes[i].status = status}

\* C34: a Provision run issues its COMPLETED update only after a poll round
\* that polled every created server and in which each of them reported
\* ready.
C34_CompletedAfterAllReady ==
    \A r \in Slots :
        (runs[r].kind = "provision" /\ WritesOf(r, "COMPLETED") # {}) =>
            /\ runs[r].call_kind = "poll"
            /\ DOMAIN runs[r].calls = DOMAIN runs[r].server_ids
            /\ \A i \in DOMAIN runs[r].calls : runs[r].calls[i] = "ready"
            /\ Range(runs[r].server_ids) = runs[r].created
            /\ Len(runs[r].server_ids) = runs[r].vm_calls

\* a run of MaxVMs servers wrote COMPLETED after a round in which a server
\* was not ready and a later one in which all were
C34_Witness ==
    \E r \in Slots :
        /\ runs[r].kind = "provision" /\ Returned(r) /\ runs[r].result.success
        /\ Len(runs[r].server_ids) = MaxVMs
        /\ runs[r].attempt >= 1
        /\ \E i \in WritesOf(r, "COMPLETED") : runs[r].writes[i].ok

\* every delete_vm_activity of run r was issued and has returned
ServersDeleted(r) ==
    /\ runs[r].resources.server_ids # <<>> =>
         /\ runs[r].call_kind = "delete"
         /\ Len(runs[r].calls) = Len(runs[r].resources.server_ids)
    /\ \A i \in DOMAIN runs[r].calls : runs[r].calls[i] = "ok"

\* the delete_network_activity of Step 3 was called and has returned
NetworkDeleted(r) ==
    /\ runs[r].net_calls = 1
    /\ runs[r].pc # "delete_network"
    /\ runs[r].exc # "delete_network"

\* C35: a Delete run calls delete_network_activity (Step 3) only once every
\* delete_vm_activity of the run has returned, and issues its DELETED update
\* only once, when the resources name a network, that call has returned too.
C35_DeleteOrder ==
    \A r \in Slots : runs[r].kind = "delete" =>
        /\ runs[r].net_calls >= 1 => ServersDeleted(r)
        /\ WritesOf(r, "DELETED") # {} =>
             /\ ServersDeleted(r)
             /\ runs[r].resources.network_id # NoId => NetworkDeleted(r)
             /\ runs[r].resources.network_id = NoId => runs[r].net_calls = 0

\* a Delete run of MaxVMs servers and a network deleted them all, then the
\* network, and its DELETED update took effect
C35_Witness ==
    \E r \in Slots :
        /\ runs[r].kind = "delete" /\ Returned(r) /\ runs[r].result.success
        /\ Len(runs[r].resources.server_ids) = MaxVMs
        /\ runs[r].resources.network_id # NoId
        /\ NetworkDeleted(r) /\ ServersDeleted(r)
        /\ dep.status = "DELETED"

\* Scale run r passed the bounds check with a target below current_count and
\* has called scale_in_activity
ScaledIn(r) ==
    /\ runs[r].kind = "scale" /\ runs[r].pc # "start" /\ ~OutOfBounds(r)
    /\ runs[r].scale.target_count < runs[r].scale.current_count

\* the re-check of scale_in_activity fails for run r
BelowMin(r) ==
    Len(runs[r].resources.server_ids)
        - (runs[r].scale.current_count - runs[r].scale.target_count)
      < runs[r].scale.min_count

\* C36: a scale-in that removes servers leaves at least min_count of the
\* listed ones, whatever current_count and server_ids the run was given;
\* and when the re-check before the removal fails, nothing is removed, the
\* run issues a FAILED update with an error and no COMPLETED one, and (its
\* Store updates taking effect) returns a failure with operation "scale-in"
\* and leaves the record FAILED.
C36_ScaleInKeepsMin ==
    \A r \in Slots : ScaledIn(r) =>
        LET ids == runs[r].resources.server_ids
            removed == runs[r].result.removed_server_ids
        IN
        /\ removed # <<>> => Len(ids) - Len(removed) >= runs[r].scale.min_count
        /\ runs[r].result.final_count # Absent =>
             runs[r].result.final_count >= runs[r].scale.min_count
        /\ BelowMin(r) =>
             /\ removed = <<>>
             /\ WritesOf(r, "COMPLETED") = {}
             /\ runs[r].writes[1].status = "FAILED" /\ runs[r].writes[1].has_error
             /\ Written(r) = DOMAIN runs[r].writes =>
                  /\ Returned(r) /\ ~runs[r].result.success
                  /\ runs[r].result.operation = "scale-in"
                  /\ runs[r].result.final_count = runs[r].scale.current_count
                  /\ dep.status = "FAILED"
                  /\ resources_or_empty(dep.resources) = runs[r].resources

\* a scale-in refused by the re-check: current_count 2 over a single listed
\* server, target and min 1
C36_Witness ==
    \E r \in Slots :
        /\ ScaledIn(r) /\ BelowMin(r) /\ Returned(r)
        /\ runs[r].scale.current_count = 2 /\ runs[r].scale.target_count = 1
        /\ runs[r].scale.min_count = 1
        /\ Len(runs[r].resources.server_ids) = 1
        /\ runs[r].result.operation = "scale-in"
        /\ dep.status = "FAILED"

\* caller c was let through by a can_execute that left the breaker HALF_OPEN
\* (the trial call), and its outcome is not recorded yet
TrialRunning(c) ==
    callers[c].pc = "running" /\ callers[c].last.left = "HALF_OPEN"

\* C37: while the outcome of a call admitted in HALF_OPEN is not recorded,
\* no other call is admitted by a breaker found in HALF_OPEN.
C37_HalfOpenSingleTrial ==
    \A c, d \in Callers :
        (c # d /\ TrialRunning(c) /\ callers[d].pc = "running")
            => callers[d].last.state # "HALF_OPEN"

\* C40: a CLOSED breaker has counted fewer failures than its threshold,
\* whatever the order of can_execute, record_success, record_failure and
\* reset, late outcomes of calls admitted before a change of state included.
C40_ClosedBelowThreshold ==
    (breaker.failure_threshold >= 1 /\ breaker.state = "CLOSED")
        => breaker.failure_count < breaker.failure_threshold

\* the failure of a call admitted as the HALF_OPEN trial is recorded after
\* another call's success has closed the breaker, which stays CLOSED with
\* a count of one
C40_Witness ==
    /\ breaker.state = "CLOSED" /\ breaker.failure_count = 1
    /\ last_op = Operation("record_failure", breaker, breaker)
    /\ \E c \in Callers :
         /\ callers[c].pc = "idle" /\ callers[c].last.outcome = "raised"
         /\ callers[c].last.left = "HALF_OPEN"

\* Provision run r has made a creation call at the provider
CreationCalled(r) ==
    \/ runs[r].net_calls >= 1 \/ runs[r].subnet_calls >= 1 \/ runs[r].vm_calls >= 1
    \/ runs[r].net_created # NoId \/ runs[r].created # {}

\* C38: a Provision run makes a creation call (network, subnet, server) only
\* after its first Store update, the IN_PROGRESS one, has succeeded; when
\* that update fails the run creates nothing and its compensator is given
\* nothing to delete.
C38_NoCreationBeforeInProgress ==
    \A r \in Slots : runs[r].kind = "provision" =>
        /\ CreationCalled(r) =>
             /\ runs[r].writes # <<>>
             /\ runs[r].writes[1].status = "IN_PROGRESS" /\ runs[r].writes[1].ok
        /\ (runs[r].writes # <<>> /\ ~runs[r].writes[1].ok) =>
             /\ ~CreationCalled(r)
             /\ runs[r].rb_invoked
             /\ runs[r].rb_network_id = NoId /\ runs[r].rb_server_ids = <<>>
             /\ runs[r].rb_attempted = {}

\* a Provision run for an id the Store does not hold: the IN_PROGRESS update
\* raised, the run is over and nothing was created
C38_Witness ==
    \E r \in Slots :
        /\ runs[r].kind = "provision" /\ runs[r].pc = "done"
        /\ ~dep.exists
        /\ ~runs[r].writes[1].ok /\ runs[r].writes[1].status = "IN_PROGRESS"
        /\ ~CreationCalled(r)

\* run r of Provision, Update or Delete is over and did not succeed
FailedRun(r) ==
    /\ runs[r].kind \in {"provision", "update", "delete"}
    /\ runs[r].pc = "done"
    /\ ~(Returned(r) /\ runs[r].result.success)

\* C39: the Store updates of a failed Provision, Update or Delete run that
\* took effect are IN_PROGRESS and FAILED ones, none carrying resources and
\* each FAILED one carrying an error; an update carrying resources was
\* issued only as a COMPLETED one that raised; the stored resources are what
\* they were before the run.
C39_FailedRunKeepsResources ==
    \A r \in Slots : FailedRun(r) =>
        /\ \A i \in Written(r) :
             /\ runs[r].writes[i].status \in {"IN_PROGRESS", "FAILED"}
             /\ ~runs[r].writes[i].has_resources
             /\ runs[r].writes[i].status = "FAILED" => runs[r].writes[i].has_error
        /\ \A i \in DOMAIN runs[r].writes :
             runs[r].writes[i].has_resources =>
                 runs[r].writes[i].status = "COMPLETED" /\ ~runs[r].writes[i].ok
        /\ IF runs[r].kind = "provision"
           THEN dep.resources = Null
           ELSE resources_or_empty(dep.resources) = runs[r].resources

\* an Update run over stored servers failed at a resize, its FAILED update
\* took effect, and the record holds the resources it held before
C39_Witness ==
    \E r \in Slots :
        /\ FailedRun(r) /\ runs[r].kind = "update" /\ runs[r].exc = "resize"
        /\ Len(runs[r].resources.server_ids) = MaxVMs
        /\ Written(r) = DOMAIN runs[r].writes
        /\ dep.status = "FAILED"
        /\ dep.resources = runs[r].resources
====
